---- MODULE Spec2Model ----
(***************************************************************************)
(* Model of the free/busy normalisation core of freebusy-api:              *)
(*   - clipAndMerge and buildWindowV2   (freebusy.ts, v2 interval model)   *)
(*   - the zoned time utility           (time.ts)                          *)
(*   - parseFreeBusy and its helpers    (ical.ts)                          *)
(* Instants are whole seconds since 1970-01-01T00:00:00Z; the code counts  *)
(* milliseconds, and every instant it handles here is a whole second, so   *)
(* a model instant t stands for the code's 1000 * t.                       *)
(***************************************************************************)
EXTENDS Integers, Sequences, FiniteSets, TLC

VARIABLES
    mPc,            \* clipAndMerge call: "call" before, "done" after
    mIntervals,     \* argument intervals (BusyInterval[])
    mWindowStart,   \* argument windowStartMsUtc
    mWindowEnd,     \* argument windowEndMsUtcExclusive
    mMerged,        \* returned BusyInterval[]
    wPc,            \* buildWindowV2 call: "call" before, "done" after
    wWeeks,         \* argument windowWeeks
    wNow,           \* argument now (instant)
    wZone,          \* argument calendarTimeZone
    wWindow,        \* returned WindowV2
    pPc,            \* parseFreeBusy call: "parsing" while its loops run, "done" after
    pFeed,          \* what the feed is made of: "VEVENT", "VFREEBUSY" or "DTSTART" lines
    pDefaultTz,     \* argument defaultTimeZone (the owner zone)
    pLines,         \* how many unfolded lines the loops have consumed
    inComponent,    \* parseFreeBusyComponents: inComponent
    busy,           \* parseFreeBusyComponents: busy
    inEvent,        \* parseEventComponents: inEvent
    current,        \* parseEventComponents: current
    currentDuration,\* parseEventComponents: currentDuration
    events,         \* parseEventComponents: events
    pWarnings,      \* how many times warn was called
    pResult,        \* returned BusyBlock[]
    hBlock,         \* history: the DTSTART, DTEND, DURATION lines read in the open block
    hPeriods,       \* history: the well-formed, positive periods read so far
    hDiscarded,     \* history: a value pair resolved with end <= start
    hMalformed,     \* history: a line had an unreadable period before a readable one
    hUnsupportedTzid, \* history: a value with an unsupported explicit TZID was resolved
    hStarts,        \* history: the DTSTART line behind each element of events
    zPc,            \* utcMillisFromZonedLocal then getZonedYmd: "call", "converted", "back"
    zZone,          \* argument timeZone
    zLocal,         \* argument local (year, month, day, hour, minute)
    zInstant,       \* returned instant
    zYmd,           \* getZonedYmd of the returned instant
    dPc,            \* parseDuration then parseFreeBusyPeriod: "call", "parsed", "built"
    dText,          \* argument value of parseDuration
    dStart,         \* the start text of the period start/value
    dResult,        \* returned number of parseDuration
    dBlock,         \* returned BusyBlock of parseFreeBusyPeriod, or null
    uPc,            \* unfoldLines call: "call" before, "done" after
    uRaw,           \* argument raw, as its characters
    uOut,           \* returned logical lines
    storage,        \* RateLimitDurable.storage: the StoredCounter under each key, if any
    clock,          \* Date.now()
    limits,         \* the limit that requests give for each key
    rlWindowMs,     \* the windowMs that requests give
    response,       \* the Response of the last fetch
    fetches,        \* how many times fetch has run
    hSeen,          \* history: per key, when a scope was counted and the outcome computed
    cCalls,         \* RateLimitDurable.fetch calls in flight: where each stands and its locals
    cStorage,       \* the StoredCounter under the one key the calls count, if any
    cClock,         \* Date.now()
    cLimit,         \* the limit the requests give
    cWindowMs,      \* the windowMs the requests give
    cSeen,          \* history: the outcomes computed, in the order the counters were put
    objects,        \* the heap: the interval objects the cached parse result holds
    cachedBusy,     \* cached.busy: the array of references to them
    served,         \* how many requests have been served from the cache
    servedWindow,   \* the window of the last request served
    windowsDiffer,  \* history: two requests served used different windows
    lastBusy,       \* the intervals the last clipAndMerge returned
    hParsed,        \* history: the parse result as it was cached
    envCaches,      \* the eight module-level caches of index.ts: the env they were parsed from, or null
    cached,         \* the module-level cached: the last parse result and its fetchedAt, or null
    requests,       \* the calls of the worker fetch handler: where each stands, its request and its response
    dateNow         \* Date.now()

mergeVars == <<mPc, mIntervals, mWindowStart, mWindowEnd, mMerged>>
windowVars == <<wPc, wWeeks, wNow, wZone, wWindow>>
parseVars == <<pPc, pFeed, pDefaultTz, pLines, inComponent, busy, inEvent, current,
               currentDuration, events, pWarnings, pResult,
               hBlock, hPeriods, hDiscarded, hMalformed, hUnsupportedTzid, hStarts>>
zonedVars == <<zPc, zZone, zLocal, zInstant, zYmd>>
durationVars == <<dPc, dText, dStart, dResult, dBlock>>
unfoldVars == <<uPc, uRaw, uOut>>
limiterVars == <<storage, clock, limits, rlWindowMs, response, fetches, hSeen>>
concurrentVars == <<cCalls, cStorage, cClock, cLimit, cWindowMs, cSeen>>
cacheVars == <<objects, cachedBusy, served, servedWindow, windowsDiffer, lastBusy, hParsed>>
workerVars == <<envCaches, cached, requests, dateNow>>
vars == <<mergeVars, windowVars, parseVars, zonedVars, durationVars, unfoldVars, limiterVars, concurrentVars, cacheVars, workerVars>>
besidesMerge == <<windowVars, parseVars, zonedVars, durationVars, unfoldVars, limiterVars, concurrentVars, cacheVars, workerVars>>
besidesWindow == <<mergeVars, parseVars, zonedVars, durationVars, unfoldVars, limiterVars, concurrentVars, cacheVars, workerVars>>
besidesParse == <<mergeVars, windowVars, zonedVars, durationVars, unfoldVars, limiterVars, concurrentVars, cacheVars, workerVars>>
besidesZoned == <<mergeVars, windowVars, parseVars, durationVars, unfoldVars, limiterVars, concurrentVars, cacheVars, workerVars>>
besidesDuration == <<mergeVars, windowVars, parseVars, zonedVars, unfoldVars, limiterVars, concurrentVars, cacheVars, workerVars>>
besidesUnfold == <<mergeVars, windowVars, parseVars, zonedVars, durationVars, limiterVars, concurrentVars, cacheVars, workerVars>>
besidesLimiter == <<mergeVars, windowVars, parseVars, zonedVars, durationVars, unfoldVars, concurrentVars, cacheVars, workerVars>>
besidesConcurrent == <<mergeVars, windowVars, parseVars, zonedVars, durationVars, unfoldVars, limiterVars, cacheVars, workerVars>>
besidesCache == <<mergeVars, windowVars, parseVars, zonedVars, durationVars, unfoldVars, limiterVars, concurrentVars, workerVars>>
besidesWorker == <<mergeVars, windowVars, parseVars, zonedVars, durationVars, unfoldVars, limiterVars, concurrentVars, cacheVars>>

(***************************************************************************)
(* Each specification below exercises one operation; the variables of the  *)
(* other operations then stay at these values.                             *)
(***************************************************************************)
NoWindow == [startDate |-> <<>>, endDateInclusive |-> <<>>,
             startMsUtc |-> 0, endMsUtcExclusive |-> 0]

MergeIdle ==
    /\ mPc = "idle" /\ mIntervals = <<>> /\ mWindowStart = 0
    /\ mWindowEnd = 0 /\ mMerged = <<>>

WindowIdle ==
    /\ wPc = "idle" /\ wWeeks = 0 /\ wNow = 0 /\ wZone = "UTC"
    /\ wWindow = NoWindow

\* undefined, for a time zone identifier
NoTzid == ""

\* let current = {}
EmptyCurrent ==
    [hasStart |-> FALSE, start |-> 0, hasEnd |-> FALSE, end |-> 0,
     startIsDateOnly |-> FALSE, hasStartYmd |-> FALSE,
     startYmd |-> [year |-> 0, month |-> 0, day |-> 0], startTimeZone |-> NoTzid]

\* let currentDuration: number | undefined
NoDuration == [defined |-> FALSE, ms |-> 0]

\* An unfolded line that is none of the lines the loops look at.
NoLine == [name |-> "", tzid |-> NoTzid, valueDate |-> FALSE,
           value |-> [form |-> "text", year |-> 0, month |-> 0, day |-> 0,
                      hour |-> 0, minute |-> 0, second |-> 0],
           periods |-> <<>>]

EmptyBlock == [dtstart |-> NoLine, dtend |-> NoLine, duration |-> NoLine]

ParseIdle ==
    /\ pPc = "idle" /\ pFeed = "" /\ pDefaultTz = NoTzid /\ pLines = 0
    /\ inComponent = FALSE /\ busy = <<>>
    /\ inEvent = FALSE /\ current = EmptyCurrent /\ currentDuration = NoDuration
    /\ events = <<>> /\ pWarnings = 0 /\ pResult = <<>>
    /\ hBlock = EmptyBlock /\ hPeriods = <<>>
    /\ hDiscarded = FALSE /\ hMalformed = FALSE /\ hUnsupportedTzid = FALSE
    /\ hStarts = <<>>

\* The other operations at rest.
ZonedIdle ==
    /\ zPc = "idle" /\ zZone = "UTC" /\ zInstant = 0
    /\ zLocal = [year |-> 0, month |-> 0, day |-> 0, hour |-> 0, minute |-> 0]
    /\ zYmd = [year |-> 0, month |-> 0, day |-> 0]

DurationIdle ==
    /\ dPc = "idle" /\ dText = NoLine.value /\ dStart = NoLine.value
    /\ dResult = [isNaN |-> TRUE, ms |-> 0]
    /\ dBlock = [ok |-> FALSE, start |-> 0, end |-> 0, warnings |-> 0]

UnfoldIdle ==
    /\ uPc = "idle" /\ uRaw = <<>> /\ uOut = <<>>

LimiterIdle ==
    /\ storage = <<>> /\ clock = 0 /\ limits = <<>> /\ rlWindowMs = 0
    /\ response = [status |-> 0, allowed |-> FALSE, scopes |-> <<>>]
    /\ fetches = 0 /\ hSeen = <<>>

ConcurrentIdle ==
    /\ cCalls = <<>> /\ cStorage = <<>>
    /\ cClock = 0 /\ cLimit = 0 /\ cWindowMs = 0 /\ cSeen = <<>>

CacheIdle ==
    /\ objects = <<>> /\ cachedBusy = <<>> /\ served = 0 /\ servedWindow = <<0, 0>>
    /\ windowsDiffer = FALSE /\ lastBusy = <<>> /\ hParsed = <<>>

WorkerIdle ==
    /\ envCaches = "" /\ cached = [held |-> FALSE, fetchedAt |-> 0, busy |-> 0]
    /\ requests = <<>> /\ dateNow = 0

IdleBesidesMerge == WindowIdle /\ ParseIdle /\ ZonedIdle /\ DurationIdle /\ UnfoldIdle /\ LimiterIdle /\ ConcurrentIdle /\ CacheIdle /\ WorkerIdle
IdleBesidesWindow == MergeIdle /\ ParseIdle /\ ZonedIdle /\ DurationIdle /\ UnfoldIdle /\ LimiterIdle /\ ConcurrentIdle /\ CacheIdle /\ WorkerIdle
IdleBesidesParse == MergeIdle /\ WindowIdle /\ ZonedIdle /\ DurationIdle /\ UnfoldIdle /\ LimiterIdle /\ ConcurrentIdle /\ CacheIdle /\ WorkerIdle
IdleBesidesZoned == MergeIdle /\ WindowIdle /\ ParseIdle /\ DurationIdle /\ UnfoldIdle /\ LimiterIdle /\ ConcurrentIdle /\ CacheIdle /\ WorkerIdle
IdleBesidesDuration == MergeIdle /\ WindowIdle /\ ParseIdle /\ ZonedIdle /\ UnfoldIdle /\ LimiterIdle /\ ConcurrentIdle /\ CacheIdle /\ WorkerIdle
IdleBesidesUnfold == MergeIdle /\ WindowIdle /\ ParseIdle /\ ZonedIdle /\ DurationIdle /\ LimiterIdle /\ ConcurrentIdle /\ CacheIdle /\ WorkerIdle
IdleBesidesLimiter == MergeIdle /\ WindowIdle /\ ParseIdle /\ ZonedIdle /\ DurationIdle /\ UnfoldIdle /\ ConcurrentIdle /\ CacheIdle /\ WorkerIdle
IdleBesidesConcurrent == MergeIdle /\ WindowIdle /\ ParseIdle /\ ZonedIdle /\ DurationIdle /\ UnfoldIdle /\ LimiterIdle /\ CacheIdle /\ WorkerIdle
IdleBesidesCache == MergeIdle /\ WindowIdle /\ ParseIdle /\ ZonedIdle /\ DurationIdle /\ UnfoldIdle /\ LimiterIdle /\ ConcurrentIdle /\ WorkerIdle
IdleBesidesWorker == MergeIdle /\ WindowIdle /\ ParseIdle /\ ZonedIdle /\ DurationIdle /\ UnfoldIdle /\ LimiterIdle /\ ConcurrentIdle /\ CacheIdle

(***************************************************************************)
(* Bounds of the clipAndMerge inputs.                                      *)
(***************************************************************************)
MaxT == 3       \* instants of the merge inputs range over 0..MaxT
MaxLen == 3     \* longest input sequence

Kinds == {"time", "allDay"}

Max(a, b) == IF a >= b THEN a ELSE b
Min(a, b) == IF a <= b THEN a ELSE b

(***************************************************************************)
(* clipAndMerge, freebusy.ts (v2).                                         *)
(***************************************************************************)
\* .map(...): clip one interval to the window, kind kept.
ClipIntervalStartOnly(i, ws, we) ==
    [startMsUtc |-> Max(i.startMsUtc, ws),
     endMsUtc   |-> i.endMsUtc,
     kind       |-> i.kind]

ClipInterval(i, ws, we) ==
    [startMsUtc |-> Max(i.startMsUtc, ws),
     endMsUtc   |-> Min(i.endMsUtc, we),
     kind       |-> i.kind]

\* .filter(...): the predicate on a clipped interval.
KeepInterval(i, ws, we) ==
    i.endMsUtc > i.startMsUtc /\ i.endMsUtc > ws /\ i.startMsUtc < we

RECURSIVE MapClip(_, _, _)
MapClip(s, ws, we) ==
    IF s = <<>> THEN <<>>
    ELSE <<ClipInterval(Head(s), ws, we)>> \o MapClip(Tail(s), ws, we)

RECURSIVE FilterKeep(_, _, _)
FilterKeep(s, ws, we) ==
    IF s = <<>> THEN <<>>
    ELSE (IF KeepInterval(Head(s), ws, we) THEN <<Head(s)>> ELSE <<>>)
         \o FilterKeep(Tail(s), ws, we)

Relevant(intervals, ws, we) == FilterKeep(MapClip(intervals, ws, we), ws, we)

\* Insert x into a sequence sorted by start, after every element whose start
\* is not greater: Array.prototype.sort is stable.
RECURSIVE InsertByStart(_, _)
InsertByStart(x, s) ==
    IF s = <<>> THEN <<x>>
    ELSE IF Head(s).startMsUtc <= x.startMsUtc
         THEN <<Head(s)>> \o InsertByStart(x, Tail(s))
         ELSE <<x>> \o s

RECURSIVE InsertByStartDescending(_, _)
InsertByStartDescending(x, s) ==
    IF s = <<>> THEN <<x>>
    ELSE IF Head(s).startMsUtc >= x.startMsUtc
         THEN <<Head(s)>> \o InsertByStartDescending(x, Tail(s))
         ELSE <<x>> \o s

RECURSIVE SortByStartDescending(_)
SortByStartDescending(s) ==
    IF s = <<>> THEN <<>>
    ELSE InsertByStartDescending(s[Len(s)], SortByStartDescending(SubSeq(s, 1, Len(s) - 1)))

\* relevant.sort((a, b) => a.startMsUtc - b.startMsUtc): the elements are
\* inserted in input order, so equal starts keep their input order.
RECURSIVE SortByStart(_)
SortByStart(s) ==
    IF s = <<>> THEN <<>>
    ELSE InsertByStart(s[Len(s)], SortByStart(SubSeq(s, 1, Len(s) - 1)))

MergeKindKeepsLast(lastKind, currentKind) == lastKind

\* if (last.kind === "time" && current.kind === "allDay") last.kind = "allDay"
MergeKind(lastKind, currentKind) ==
    IF lastKind = "time" /\ currentKind = "allDay" THEN "allDay" ELSE lastKind

TouchesStrict(cur, last) == cur.startMsUtc < last.endMsUtc

\* if (current.startMsUtc <= last.endMsUtc), current written cur
Touches(cur, last) == cur.startMsUtc <= last.endMsUtc

\* One iteration of the sweep over the sorted intervals.
SweepStep(merged, cur) ==
    IF merged = <<>> THEN <<cur>>
    ELSE LET n == Len(merged)
             last == merged[n]
         IN IF Touches(cur, last)
            THEN [merged EXCEPT ![n] =
                    [startMsUtc |-> last.startMsUtc,
                     endMsUtc   |-> Max(last.endMsUtc, cur.endMsUtc),
                     kind       |-> MergeKind(last.kind, cur.kind)]]
            ELSE Append(merged, cur)

RECURSIVE Sweep(_, _)
Sweep(merged, rest) ==
    IF rest = <<>> THEN merged
    ELSE Sweep(SweepStep(merged, Head(rest)), Tail(rest))

clipAndMerge(intervals, ws, we) ==
    Sweep(<<>>, SortByStart(Relevant(intervals, ws, we)))

(***************************************************************************)
(* The clipAndMerge call as a state machine: Init draws the arguments,     *)
(* ClipAndMergeCall applies the function and leaves the arguments alone.   *)
(***************************************************************************)
MergeInstants == 0..MaxT

\* BusyInterval values as parseFreeBusy hands them over: end after start.
MergeIntervalSet ==
    {i \in [startMsUtc : MergeInstants, endMsUtc : MergeInstants, kind : Kinds] :
        i.startMsUtc < i.endMsUtc}

SeqsUpTo(S, n) == UNION {[1..k -> S] : k \in 0..n}

InitMerge ==
    /\ mPc = "call"
    /\ mIntervals \in SeqsUpTo(MergeIntervalSet, MaxLen)
    /\ mWindowStart \in MergeInstants
    /\ mWindowEnd \in MergeInstants
    /\ mWindowStart < mWindowEnd
    /\ mMerged = <<>>
    /\ IdleBesidesMerge

ClipAndMergeCall ==
    /\ mPc = "call"
    /\ mMerged' = clipAndMerge(mIntervals, mWindowStart, mWindowEnd)
    /\ mPc' = "done"
    /\ UNCHANGED <<mIntervals, mWindowStart, mWindowEnd>>
    /\ UNCHANGED besidesMerge

NextMerge == ClipAndMergeCall

SpecMerge == InitMerge /\ [][NextMerge]_vars

(***************************************************************************)
(* Claims about clipAndMerge.                                              *)
(***************************************************************************)
MergeDone == mPc = "done"

\* The clipped inputs that survive the filter, in input order.
MergeRelevant == Relevant(mIntervals, mWindowStart, mWindowEnd)

\* C1: every interval clipAndMerge returns lies inside the window and is not
\* empty: windowStart <= start < end <= windowEndExclusive.
C1_OutputsInsideWindow ==
    MergeDone =>
        \A k \in 1..Len(mMerged) :
            /\ mWindowStart <= mMerged[k].startMsUtc
            /\ mMerged[k].startMsUtc < mMerged[k].endMsUtc
            /\ mMerged[k].endMsUtc <= mWindowEnd

\* An input reaching outside the window on both sides has been clipped to it.
C1_Witness ==
    /\ MergeDone
    /\ Len(mMerged) >= 1
    /\ \E j \in 1..Len(mIntervals) :
          /\ mIntervals[j].startMsUtc < mWindowStart
          /\ mIntervals[j].endMsUtc > mWindowEnd
    /\ mMerged[1].startMsUtc = mWindowStart
    /\ mMerged[1].endMsUtc = mWindowEnd

\* C2: the returned sequence is sorted ascending by start and each output
\* starts strictly after the previous output ends (no overlap, no touching).
C2_SortedWithGaps ==
    MergeDone =>
        \A k \in 1..(Len(mMerged) - 1) :
            mMerged[k + 1].startMsUtc > mMerged[k].endMsUtc

\* Touching inputs given out of order (the later one first) come out as
\* one interval.
C2_Witness ==
    /\ MergeDone
    /\ Len(mMerged) = 1
    /\ \E a, b \in 1..Len(mIntervals) :
          /\ a < b
          /\ mIntervals[b].endMsUtc = mIntervals[a].startMsUtc
          /\ mIntervals[b].startMsUtc >= mWindowStart
          /\ mIntervals[a].endMsUtc <= mWindowEnd
          /\ mMerged[1].startMsUtc = mIntervals[b].startMsUtc
          /\ mMerged[1].endMsUtc = mIntervals[a].endMsUtc

\* The surviving clipped inputs (indices into rel) merged into output out.
MergedInto(rel, out) ==
    {j \in 1..Len(rel) :
        /\ out.startMsUtc <= rel[j].startMsUtc
        /\ rel[j].endMsUtc <= out.endMsUtc}

\* C3: an output is allDay exactly when at least one of the inputs merged
\* into it is allDay, and time exactly when all of them are time.
C3_AllDayDominates ==
    MergeDone =>
        LET rel == MergeRelevant
        IN \A k \in 1..Len(mMerged) :
            LET into == MergedInto(rel, mMerged[k])
            IN /\ into # {}
               /\ (mMerged[k].kind = "allDay") <=>
                      (\E j \in into : rel[j].kind = "allDay")
               /\ (mMerged[k].kind = "time") <=>
                      (\A j \in into : rel[j].kind = "time")

\* A time interval first in the sweep, an allDay interval merged into it,
\* then another time interval: the output is allDay.
C3_Witness ==
    /\ MergeDone
    /\ Len(mMerged) = 1
    /\ Len(MergeRelevant) = 3
    /\ LET s == SortByStart(MergeRelevant)
       IN /\ s[1].kind = "time" /\ s[2].kind = "allDay" /\ s[3].kind = "time"
          /\ s[1].startMsUtc < s[2].startMsUtc
          /\ s[2].startMsUtc < s[3].startMsUtc
    /\ mMerged[1].kind = "allDay"

\* A sequence that is sorted ascending, pairwise disjoint and non-adjacent.
SortedDisjointNonAdjacent(s) ==
    \A k \in 1..(Len(s) - 1) : s[k + 1].startMsUtc > s[k].endMsUtc

InsideWindow(s, ws, we) ==
    \A k \in 1..Len(s) : ws <= s[k].startMsUtc /\ s[k].endMsUtc <= we

\* C4 as stated: clipAndMerge returns every sorted, disjoint, non-adjacent
\* sequence unchanged, whatever the window.
C4_UnchangedAnyWindow ==
    (MergeDone /\ SortedDisjointNonAdjacent(mIntervals)) => mMerged = mIntervals

\* C4 (amended): clipAndMerge returns unchanged every sorted, disjoint,
\* non-adjacent sequence whose intervals lie inside the window, which is what
\* a previous clipAndMerge with the same window returns.
C4_UnchangedInsideWindow ==
    (/\ MergeDone
     /\ SortedDisjointNonAdjacent(mIntervals)
     /\ InsideWindow(mIntervals, mWindowStart, mWindowEnd))
        => mMerged = mIntervals

\* Two separated intervals of different kinds inside the window, returned
\* as they were given.
C4_Witness ==
    /\ MergeDone
    /\ Len(mIntervals) = 2
    /\ SortedDisjointNonAdjacent(mIntervals)
    /\ InsideWindow(mIntervals, mWindowStart, mWindowEnd)
    /\ mIntervals[1].kind # mIntervals[2].kind
    /\ mMerged = mIntervals


(***************************************************************************)
(* Calendar arithmetic of the built-in Date: days since 1970-01-01 of a    *)
(* proleptic Gregorian date and back.                                      *)
(***************************************************************************)
SecondsPerDay == 24 * 60 * 60

\* const name = value; Body(name): the value is computed once, then used.
Bind(value, Body(_)) == CHOOSE result \in {Body(v) : v \in {value}} : TRUE

DaysFromCivil(year, month, day) ==
    Bind(IF month <= 2 THEN year - 1 ELSE year, LAMBDA y :
    Bind(y \div 400, LAMBDA era :
    Bind(y - era * 400, LAMBDA yoe :
    Bind(IF month > 2 THEN month - 3 ELSE month + 9, LAMBDA mp :
    Bind((153 * mp + 2) \div 5 + day - 1, LAMBDA doy :
        era * 146097 + (yoe * 365 + yoe \div 4 - yoe \div 100 + doy) - 719468)))))

CivilFromDays(days) ==
    Bind(days + 719468, LAMBDA z :
    Bind(z \div 146097, LAMBDA era :
    Bind(z - era * 146097, LAMBDA doe :
    Bind((doe - doe \div 1460 + doe \div 36524 - doe \div 146096) \div 365, LAMBDA yoe :
    Bind(doe - (365 * yoe + yoe \div 4 - yoe \div 100), LAMBDA doy :
    Bind((5 * doy + 2) \div 153, LAMBDA mp :
    Bind(IF mp < 10 THEN mp + 3 ELSE mp - 9, LAMBDA m :
        [year  |-> yoe + era * 400 + (IF m <= 2 THEN 1 ELSE 0),
         month |-> m,
         day   |-> doy - (153 * mp + 2) \div 5 + 1])))))))

\* Date.UTC(year, monthIndex, day, hour, minute, second): monthIndex counts
\* from 0, and fields out of range carry over into the next unit.
DateUTC(year, monthIndex, day, hour, minute, second) ==
    (DaysFromCivil(year + monthIndex \div 12, (monthIndex % 12) + 1, 1) + (day - 1))
        * SecondsPerDay
    + hour * 3600 + minute * 60 + second

(***************************************************************************)
(* The time zone database Intl.DateTimeFormat reads, for the year 2026:    *)
(* the offset from UTC (seconds) before the first transition, and the      *)
(* transitions in order.  Any other identifier makes Intl.DateTimeFormat   *)
(* throw a RangeError.                                                     *)
(*   America/New_York  02:00 local, 8 March and 1 November                 *)
(*   America/Havana    00:00 standard time, 8 March and 1 November: local  *)
(*                     midnight of 8 March does not exist, local midnight  *)
(*                     of 1 November occurs twice                          *)
(*   Pacific/Auckland  5 April (03:00 -> 02:00), 27 September (02:00 ->    *)
(*                     03:00)                                              *)
(***************************************************************************)
TimeZoneDatabase ==
    [tz \in {"UTC", "America/New_York", "America/Havana", "Pacific/Auckland"} |->
        CASE tz = "UTC" ->
                [initial |-> 0, transitions |-> <<>>]
          [] tz = "America/New_York" ->
                [initial |-> -5 * 3600,
                 transitions |->
                    <<[at |-> DateUTC(2026, 2, 8, 7, 0, 0), offset |-> -4 * 3600],
                      [at |-> DateUTC(2026, 10, 1, 6, 0, 0), offset |-> -5 * 3600]>>]
          [] tz = "America/Havana" ->
                [initial |-> -5 * 3600,
                 transitions |->
                    <<[at |-> DateUTC(2026, 2, 8, 5, 0, 0), offset |-> -4 * 3600],
                      [at |-> DateUTC(2026, 10, 1, 5, 0, 0), offset |-> -5 * 3600]>>]
          [] tz = "Pacific/Auckland" ->
                [initial |-> 13 * 3600,
                 transitions |->
                    <<[at |-> DateUTC(2026, 3, 4, 14, 0, 0), offset |-> 12 * 3600],
                      [at |-> DateUTC(2026, 8, 26, 14, 0, 0), offset |-> 13 * 3600]>>]]

ValidTimeZones == DOMAIN TimeZoneDatabase

\* The zone's offset from UTC, in seconds, at instant t.
RECURSIVE OffsetAfter(_, _, _)
OffsetAfter(offset, transitions, t) ==
    IF transitions = <<>> \/ t < Head(transitions).at THEN offset
    ELSE OffsetAfter(Head(transitions).offset, Tail(transitions), t)

ZoneOffset(tz, t) ==
    OffsetAfter(TimeZoneDatabase[tz].initial, TimeZoneDatabase[tz].transitions, t)

(***************************************************************************)
(* The zoned time utility, time.ts.                                        *)
(***************************************************************************)
\* getZonedParts: the wall-clock fields Intl.DateTimeFormat gives for the
\* instant in the zone.
getZonedParts(t, tz) ==
    Bind(t + ZoneOffset(tz, t), LAMBDA local :
    Bind(CivilFromDays(local \div SecondsPerDay), LAMBDA ymd :
    Bind(local % SecondsPerDay, LAMBDA sod :
        [year |-> ymd.year, month |-> ymd.month, day |-> ymd.day,
         hour |-> sod \div 3600, minute |-> (sod % 3600) \div 60,
         second |-> sod % 60])))

\* the UTC date in place of the zone's
getUtcYmd(t, tz) ==
    Bind(getZonedParts(t, "UTC"), LAMBDA parts :
        [year |-> parts.year, month |-> parts.month, day |-> parts.day])

getZonedYmd(t, tz) ==
    Bind(getZonedParts(t, tz), LAMBDA parts :
        [year |-> parts.year, month |-> parts.month, day |-> parts.day])

\* formatYmd: "YYYY-MM-DD", kept as the three numbers the text shows.
formatYmd(ymd) == <<ymd.year, ymd.month, ymd.day>>

\* new Date(Date.UTC(y, m - 1, d)); setUTCDate(getUTCDate() + days)
addDaysToZonedYmd(ymd, days) ==
    CivilFromDays(DateUTC(ymd.year, ymd.month - 1, ymd.day, 0, 0, 0) \div SecondsPerDay + days)

\* getOffsetMinutes, in seconds: the zoned fields read as UTC, minus the
\* instant (every offset of the database is a whole number of minutes).
getOffsetMinutes(t, tz) ==
    Bind(getZonedParts(t, tz), LAMBDA zoned :
        DateUTC(zoned.year, zoned.month - 1, zoned.day,
                zoned.hour, zoned.minute, zoned.second) - t)

localDateTimeToUtcMillisOnePass(local, tz) ==
    Bind(DateUTC(local.year, local.month - 1, local.day,
                 local.hour, local.minute, local.second), LAMBDA utcGuess :
        utcGuess - getOffsetMinutes(utcGuess, tz))

\* localDateTimeToUtcMillis: two offset lookups.
localDateTimeToUtcMillis(local, tz) ==
    Bind(DateUTC(local.year, local.month - 1, local.day,
                 local.hour, local.minute, local.second), LAMBDA utcGuess :
    Bind(getOffsetMinutes(utcGuess, tz), LAMBDA offset1 :
    Bind(utcGuess - offset1, LAMBDA utcMillis :
    Bind(getOffsetMinutes(utcMillis, tz), LAMBDA offset2 :
        IF offset2 # offset1 THEN utcGuess - offset2 ELSE utcMillis))))

\* utcMillisFromZonedLocal with second and millisecond left out (0).
utcMillisFromZonedLocal(ymd, hour, minute, tz) ==
    localDateTimeToUtcMillis(
        [year |-> ymd.year, month |-> ymd.month, day |-> ymd.day,
         hour |-> hour, minute |-> minute, second |-> 0], tz)

(***************************************************************************)
(* buildWindowV2, freebusy.ts (v2).                                        *)
(***************************************************************************)
WindowStartYmdUtc(now, tz) == getZonedYmd(now, "UTC")

\* const startYmd = getZonedYmd(now, calendarTimeZone)
WindowStartYmd(now, tz) == getZonedYmd(now, tz)

buildWindowV2(windowWeeks, now, calendarTimeZone) ==
    Bind(WindowStartYmd(now, calendarTimeZone), LAMBDA startYmd :
    Bind(windowWeeks * 7, LAMBDA totalDays :
    Bind(addDaysToZonedYmd(startYmd, totalDays - 1), LAMBDA endYmd :
    Bind(addDaysToZonedYmd(endYmd, 1), LAMBDA endExclusiveYmd :
        [startDate         |-> formatYmd(startYmd),
         endDateInclusive  |-> formatYmd(endYmd),
         startMsUtc        |-> utcMillisFromZonedLocal(startYmd, 0, 0, calendarTimeZone),
         endMsUtcExclusive |-> utcMillisFromZonedLocal(endExclusiveYmd, 0, 0,
                                                       calendarTimeZone)]))))

(***************************************************************************)
(* The buildWindowV2 call as a state machine.  The reference instants are  *)
(* every full hour of the days around the transitions of the database and  *)
(* of the days up to MaxWeeks weeks before them (month index from 0).     *)
(***************************************************************************)
MaxWeeks == 2   \* windowWeeks ranges over 1..MaxWeeks

ReferenceDays ==
    {<<2, 7>>, <<2, 8>>, <<3, 4>>, <<3, 5>>, <<8, 26>>, <<8, 27>>, <<10, 1>>}

ReferenceInstants ==
    {DateUTC(2026, md[1], md[2] - 7 * back, hour, 0, 0) :
        md \in ReferenceDays, back \in 0..MaxWeeks, hour \in 0..23}

InitWindow ==
    /\ wPc = "call"
    /\ wWeeks \in 1..MaxWeeks
    /\ wNow \in ReferenceInstants
    /\ wZone \in ValidTimeZones
    /\ wWindow = NoWindow
    /\ IdleBesidesWindow

BuildWindowCall ==
    /\ wPc = "call"
    /\ wWindow' = buildWindowV2(wWeeks, wNow, wZone)
    /\ wPc' = "done"
    /\ UNCHANGED <<wWeeks, wNow, wZone>>
    /\ UNCHANGED besidesWindow

NextWindow == BuildWindowCall

SpecWindow == InitWindow /\ [][NextWindow]_vars

(***************************************************************************)
(* Claims about buildWindowV2.                                             *)
(***************************************************************************)
WindowDone == wPc = "done"

\* The instants at which the zone's wall clock reads 00:00:00 of the date:
\* none when local midnight falls in a spring-forward gap, two when it falls
\* in a fall-back overlap.
MidnightInstants(ymd, tz) ==
    LET asUtc == DateUTC(ymd.year, ymd.month - 1, ymd.day, 0, 0, 0)
        offsets == {TimeZoneDatabase[tz].initial}
                   \cup {TimeZoneDatabase[tz].transitions[k].offset :
                            k \in DOMAIN TimeZoneDatabase[tz].transitions}
    IN {asUtc - off : off \in {o \in offsets : ZoneOffset(tz, asUtc - o) = o}}

YmdOfText(text) == [year |-> text[1], month |-> text[2], day |-> text[3]]

DayNumber(ymd) == DaysFromCivil(ymd.year, ymd.month, ymd.day)

\* The parts of C10 that do not speak of local midnight.
WindowDatesRight ==
    /\ wWindow.startMsUtc < wWindow.endMsUtcExclusive
    /\ YmdOfText(wWindow.startDate) = getZonedYmd(wNow, wZone)
    /\ DayNumber(YmdOfText(wWindow.endDateInclusive))
          = DayNumber(YmdOfText(wWindow.startDate)) + wWeeks * 7 - 1

WindowInstantFor(instant, ymd, tz) ==
    LET midnights == MidnightInstants(ymd, tz)
    IN IF midnights # {}
       THEN instant \in midnights /\ \A t \in midnights : instant <= t
       ELSE /\ getZonedYmd(instant, tz) = addDaysToZonedYmd(ymd, -1)
            /\ \E t \in (instant + 1)..(instant + SecondsPerDay) :
                   /\ getZonedYmd(t, tz) = ymd
                   /\ getZonedYmd(t - 1, tz) # ymd

DAY_MS == SecondsPerDay

MAX_DURATION_MS == 366 * DAY_MS

DateText(y, mo, d) ==
    [form |-> "date", year |-> y, month |-> mo, day |-> d,
     hour |-> 0, minute |-> 0, second |-> 0]

DateTimeText(y, mo, d, h, mi, s) ==
    [form |-> "dateTime", year |-> y, month |-> mo, day |-> d,
     hour |-> h, minute |-> mi, second |-> s]

DateTimeZText(y, mo, d, h, mi, s) ==
    [form |-> "dateTimeZ", year |-> y, month |-> mo, day |-> d,
     hour |-> h, minute |-> mi, second |-> s]

\* A component that a duration text does not have.
Absent == -1

\* A text made of P, then any of nW, nD, then T or not, then any of
\* nH, nM, nS: each number is a natural number or Absent.
DurationString(w, d, t, h, m, s) ==
    [form |-> "duration", year |-> 0, month |-> 0, week |-> w, day |-> d,
     hasT |-> t, hour |-> h, minute |-> m, second |-> s]

\* PnDTnHnMnS
DurationText(d, h, m, s) == DurationString(Absent, d, TRUE, h, m, s)

\* A date-time followed by a numeric UTC offset, as in 20260307T100000-0500
OffsetDateTimeText(y, mo, d, h, mi, s, sign, oh, om) ==
    [form |-> "dateTimeOffset", year |-> y, month |-> mo, day |-> d,
     hour |-> h, minute |-> mi, second |-> s,
     sign |-> sign, offsetHour |-> oh, offsetMinute |-> om]

OtherText == NoLine.value

\* value.includes("T"), for a value that is a date or a date-time
IncludesT(value) == value.form \in {"dateTime", "dateTimeZ"}

\* value.match(/^(\d{4})(\d{2})(\d{2})(?:T(\d{2})(\d{2})(\d{2})(Z)?)?$/)
MatchesDate(value) == value.form \in {"date", "dateTime", "dateTimeZ"}

\* getOffsetMinutes of ical.ts, in seconds; throws for an identifier that
\* Intl.DateTimeFormat does not know (the caller checks before calling).
icalGetOffsetMinutes(date, timeZone) ==
    Bind(getZonedParts(date, timeZone), LAMBDA lookup :
        DateUTC(lookup.year, lookup.month - 1, lookup.day,
                lookup.hour, lookup.minute, lookup.second) - date)

parseYmd(value) == [year |-> value.year, month |-> value.month, day |-> value.day]

\* `${ymd.year}${mm}${dd}`: eight digits only for a four-digit year
ymdToString(ymd) ==
    IF ymd.year \in 1000..9999 THEN DateText(ymd.year, ymd.month, ymd.day)
    ELSE OtherText

addDaysToYmd(ymd, days) ==
    CivilFromDays(DateUTC(ymd.year, ymd.month - 1, ymd.day, 0, 0, 0) \div SecondsPerDay + days)

\* parseICalDate returns null, or an instant; warned: warn was called.
ParsedNull == [ok |-> FALSE, t |-> 0, warned |-> FALSE]

ParsedDate(t, warned) == [ok |-> TRUE, t |-> t, warned |-> warned]

parseICalDate(value, tzid, isDateOnly, defaultTimeZone) ==
    IF ~MatchesDate(value) THEN ParsedNull
    ELSE
    Bind(isDateOnly \/ ~IncludesT(value), LAMBDA dateOnly :
    Bind(DateUTC(value.year, value.month - 1, value.day,
                 IF dateOnly THEN 0 ELSE value.hour,
                 IF dateOnly THEN 0 ELSE value.minute,
                 IF dateOnly THEN 0 ELSE value.second), LAMBDA utcMillis :
        IF value.form = "dateTimeZ" THEN ParsedDate(utcMillis, FALSE)
        ELSE
        Bind(IF tzid # NoTzid THEN tzid
             ELSE IF dateOnly THEN defaultTimeZone ELSE NoTzid, LAMBDA effectiveTzid :
            IF effectiveTzid = NoTzid THEN ParsedDate(utcMillis, FALSE)
            ELSE IF effectiveTzid \in ValidTimeZones
                 THEN ParsedDate(
                        utcMillis - icalGetOffsetMinutes(utcMillis, effectiveTzid), FALSE)
                 \* catch: warn, then the UTC fallback
                 ELSE ParsedDate(utcMillis, TRUE))))

\* value.match(/^P(?:(\d+)D)?(?:T(?:(\d+)H)?(?:(\d+)M)?(?:(\d+)S)?)?$/)
MatchesDuration(value) ==
    /\ value.form = "duration"
    /\ value.week = Absent
    /\ (value.hasT \/ (value.hour = Absent /\ value.minute = Absent
                                            /\ value.second = Absent))

\* d ? Number(d) : 0
NumberOrZero(group) == IF group = Absent THEN 0 ELSE group

\* parseDuration without Math.min
parseDurationUncapped(value) ==
    IF ~MatchesDuration(value) THEN [isNaN |-> TRUE, ms |-> 0]
    ELSE [isNaN |-> FALSE,
          ms |-> ((NumberOrZero(value.day) * 24 + NumberOrZero(value.hour)) * 60
                    + NumberOrZero(value.minute)) * 60 + NumberOrZero(value.second)]

\* parseDuration: NaN, or the duration in seconds, capped.
parseDuration(value) ==
    IF ~MatchesDuration(value) THEN [isNaN |-> TRUE, ms |-> 0]
    ELSE [isNaN |-> FALSE,
          ms |-> Min(((NumberOrZero(value.day) * 24 + NumberOrZero(value.hour)) * 60
                        + NumberOrZero(value.minute)) * 60
                        + NumberOrZero(value.second),
                     MAX_DURATION_MS)]

(***************************************************************************)
(* parseFreeBusyComponents: FREEBUSY lines inside VFREEBUSY.               *)
(***************************************************************************)
\* A period is the text before and after "/", when both are there.
Period(startText, endText) == [complete |-> TRUE, start |-> startText, end |-> endText]

PeriodWithoutSlash(startText) ==
    [complete |-> FALSE, start |-> startText, end |-> OtherText]

NoBlock == [ok |-> FALSE, start |-> 0, end |-> 0, warnings |-> 0]

WarningCount(parsed) == IF parsed.warned THEN 1 ELSE 0

parseFreeBusyPeriod(part, tzid) ==
    IF ~part.complete THEN NoBlock
    ELSE
    Bind(parseICalDate(part.start, tzid, FALSE, NoTzid), LAMBDA start :
        IF ~start.ok THEN NoBlock
        ELSE
        Bind(parseDuration(part.end), LAMBDA durationMs :
            IF ~durationMs.isNaN
            THEN [ok |-> TRUE, start |-> start.t, end |-> start.t + durationMs.ms,
                  warnings |-> WarningCount(start)]
            ELSE
            Bind(parseICalDate(part.end, tzid, FALSE, NoTzid), LAMBDA end :
                IF ~end.ok
                THEN [NoBlock EXCEPT !.warnings = WarningCount(start)]
                ELSE [ok |-> TRUE, start |-> start.t, end |-> end.t,
                      warnings |-> WarningCount(start) + WarningCount(end)])))

KeepPeriodOfAnyLength(parsed) == parsed.ok /\ parsed.end >= parsed.start

\* if (parsed && parsed.end > parsed.start)
KeepPeriod(parsed) == parsed.ok /\ parsed.end > parsed.start

\* for (const periodPart of periods): acc is the busy list and the number
\* of warnings so far.
RECURSIVE ParsePeriodsUntilBad(_, _, _)
ParsePeriodsUntilBad(periods, tzid, acc) ==
    IF periods = <<>> THEN acc
    ELSE
    Bind(parseFreeBusyPeriod(Head(periods), tzid), LAMBDA parsed :
        IF ~parsed.ok THEN acc
        ELSE ParsePeriodsUntilBad(Tail(periods), tzid,
                [blocks   |-> IF KeepPeriod(parsed)
                              THEN Append(acc.blocks,
                                          [start |-> parsed.start, end |-> parsed.end])
                              ELSE acc.blocks,
                 warnings |-> acc.warnings + parsed.warnings]))

RECURSIVE ParsePeriods(_, _, _)
ParsePeriods(periods, tzid, acc) ==
    IF periods = <<>> THEN acc
    ELSE
    Bind(parseFreeBusyPeriod(Head(periods), tzid), LAMBDA parsed :
        ParsePeriods(Tail(periods), tzid,
            [blocks   |-> IF KeepPeriod(parsed)
                          THEN Append(acc.blocks,
                                      [start |-> parsed.start, end |-> parsed.end])
                          ELSE acc.blocks,
             warnings |-> acc.warnings + parsed.warnings]))

\* One iteration of the loop of parseFreeBusyComponents.
FreeBusyLine(line, inside, blocks) ==
    IF line.name = "BEGIN:VFREEBUSY"
    THEN [inComponent |-> TRUE, blocks |-> blocks, warnings |-> 0]
    ELSE IF line.name = "END:VFREEBUSY"
    THEN [inComponent |-> FALSE, blocks |-> blocks, warnings |-> 0]
    ELSE IF ~inside \/ line.name # "FREEBUSY" \/ line.periods = <<>>
    THEN [inComponent |-> inside, blocks |-> blocks, warnings |-> 0]
    ELSE Bind(ParsePeriods(line.periods, line.tzid,
                           [blocks |-> blocks, warnings |-> 0]), LAMBDA acc :
            [inComponent |-> inside, blocks |-> acc.blocks, warnings |-> acc.warnings])

(***************************************************************************)
(* parseEventComponents: DTSTART, DTEND and DURATION lines inside VEVENT.  *)
(***************************************************************************)
\* upper.includes("VALUE=DATE") || !line.includes("T"): the second test is
\* never true of a line whose property name is written DTSTART or DTEND.
IsDateOnlyLine(line) == line.valueDate

\* dateMatch[1] of line.match(/[:;](\d{8}(T\d{6}Z?)?)/): the pattern is not
\* anchored at the end, so of a date-time followed by a numeric offset it
\* matches the date-time and leaves the offset unread.
DateMatchText(line) ==
    IF line.value.form = "dateTimeOffset"
    THEN DateTimeText(line.value.year, line.value.month, line.value.day,
                      line.value.hour, line.value.minute, line.value.second)
    ELSE line.value

\* line.match(/[:;](\d{8}(T\d{6}Z?)?)/)
DateMatch(line) == MatchesDate(DateMatchText(line))

\* computedAllDayEnd
ComputedAllDayEnd(cur) ==
    IF cur.hasStartYmd /\ cur.startTimeZone # NoTzid
    THEN Bind(parseICalDate(ymdToString(addDaysToYmd(cur.startYmd, 1)),
                            cur.startTimeZone, TRUE, NoTzid), LAMBDA parsed :
            IF parsed.ok THEN [t |-> parsed.t, warned |-> parsed.warned]
            ELSE [t |-> cur.start + DAY_MS, warned |-> FALSE])
    ELSE [t |-> cur.start + DAY_MS, warned |-> FALSE]

\* The end chosen at END:VEVENT for a block with a start.
ResolveEnd(cur, dur) ==
    Bind(ComputedAllDayEnd(cur), LAMBDA allDayEnd :
    Bind(IF cur.startIsDateOnly THEN allDayEnd.t ELSE cur.start + 60 * 60,
         LAMBDA defaultEnd :
    Bind(IF cur.hasEnd THEN cur.end
         ELSE IF dur.defined THEN cur.start + dur.ms
         ELSE defaultEnd, LAMBDA endValue :
        [end      |-> IF cur.startIsDateOnly /\ endValue = cur.start
                      THEN allDayEnd.t ELSE endValue,
         warnings |-> WarningCount(allDayEnd)])))

\* if (end && end > current.start)
KeepEvent(start, end) == end > start

\* The DTSTART branch.
StartLine(line, cur, defaultTimeZone) ==
    IF ~DateMatch(line) THEN [current |-> cur, warnings |-> 0]
    ELSE
    Bind(parseICalDate(DateMatchText(line), line.tzid, IsDateOnlyLine(line),
                       defaultTimeZone),
         LAMBDA parsed :
        IF ~parsed.ok THEN [current |-> cur, warnings |-> 0]
        ELSE [current |->
                [cur EXCEPT
                    !.hasStart = TRUE,
                    !.start = parsed.t,
                    !.startIsDateOnly = IsDateOnlyLine(line),
                    !.hasStartYmd = IF IsDateOnlyLine(line) THEN TRUE ELSE @,
                    !.startYmd = IF IsDateOnlyLine(line)
                                 THEN parseYmd(DateMatchText(line)) ELSE @,
                    !.startTimeZone =
                        IF ~IsDateOnlyLine(line) THEN @
                        ELSE IF line.tzid # NoTzid THEN line.tzid ELSE defaultTimeZone],
              warnings |-> WarningCount(parsed)])

\* The DTEND branch.
EndLine(line, cur, defaultTimeZone) ==
    IF ~DateMatch(line) THEN [current |-> cur, warnings |-> 0]
    ELSE
    Bind(parseICalDate(DateMatchText(line), line.tzid, IsDateOnlyLine(line),
                       defaultTimeZone),
         LAMBDA parsed :
        IF ~parsed.ok THEN [current |-> cur, warnings |-> 0]
        ELSE [current |-> [cur EXCEPT !.hasEnd = TRUE, !.end = parsed.t],
              warnings |-> WarningCount(parsed)])

\* The DURATION branch.
DurationLine(line, dur) ==
    Bind(parseDuration(line.value), LAMBDA parsed :
        IF parsed.isNaN THEN dur ELSE [defined |-> TRUE, ms |-> parsed.ms])

\* The END:VEVENT branch.
EndVEvent(st) ==
    IF st.inEvent /\ st.current.hasStart
    THEN Bind(ResolveEnd(st.current, st.currentDuration), LAMBDA resolved :
            [inEvent |-> FALSE, current |-> st.current, currentDuration |-> NoDuration,
             events |-> IF KeepEvent(st.current.start, resolved.end)
                        THEN Append(st.events,
                                    [start |-> st.current.start, end |-> resolved.end])
                        ELSE st.events,
             warnings |-> resolved.warnings])
    ELSE [st EXCEPT !.inEvent = FALSE, !.currentDuration = NoDuration, !.warnings = 0]

\* The BEGIN:VEVENT branch.
BeginVEvent(st) ==
    [st EXCEPT !.inEvent = TRUE, !.current = EmptyCurrent,
               !.currentDuration = NoDuration, !.warnings = 0]

\* One iteration of the loop of parseEventComponents; st holds inEvent,
\* current, currentDuration and events, and the warnings of this iteration.
EventLine(line, st, defaultTimeZone) ==
    IF line.name = "BEGIN:VEVENT" THEN BeginVEvent(st)
    ELSE IF line.name = "END:VEVENT" THEN EndVEvent(st)
    ELSE IF ~st.inEvent THEN [st EXCEPT !.warnings = 0]
    ELSE IF line.name = "DTSTART"
    THEN Bind(StartLine(line, st.current, defaultTimeZone), LAMBDA r :
            [st EXCEPT !.current = r.current, !.warnings = r.warnings])
    ELSE IF line.name = "DTEND"
    THEN Bind(EndLine(line, st.current, defaultTimeZone), LAMBDA r :
            [st EXCEPT !.current = r.current, !.warnings = r.warnings])
    ELSE IF line.name = "DURATION"
    THEN [st EXCEPT !.currentDuration = DurationLine(line, st.currentDuration),
                    !.warnings = 0]
    ELSE [st EXCEPT !.warnings = 0]

(***************************************************************************)
(* The feeds.  A feed is made of VEVENT lines or of VFREEBUSY lines (the   *)
(* two loops of parseFreeBusy each skip the other's lines); its values     *)
(* are on 5 April 2026, the day daylight time ends in Pacific/Auckland and *)
(* an ordinary day in America/New_York.                                    *)
(***************************************************************************)
MaxLines == 7           \* longest feed of VEVENT lines
MaxFreeBusyLines == 3   \* longest feed of VFREEBUSY lines
MaxPeriods == 2         \* most periods on one FREEBUSY line

OwnerZones == {"America/New_York", "Pacific/Auckland"}

Marker(name) == [NoLine EXCEPT !.name = name]

Property(name, tzid, valueDate, value) ==
    [name |-> name, tzid |-> tzid, valueDate |-> valueDate, value |-> value,
     periods |-> <<>>]

FreeBusyProperty(tzid, periods) ==
    [NoLine EXCEPT !.name = "FREEBUSY", !.tzid = tzid, !.periods = periods]

EventLines ==
    {Marker("BEGIN:VEVENT"), Marker("END:VEVENT"),
     \* DTSTART;VALUE=DATE:20260405
     Property("DTSTART", NoTzid, TRUE, DateText(2026, 4, 5)),
     \* DTSTART:20260405
     Property("DTSTART", NoTzid, FALSE, DateText(2026, 4, 5)),
     \* DTSTART:20260405T100000Z
     Property("DTSTART", NoTzid, FALSE, DateTimeZText(2026, 4, 5, 10, 0, 0)),
     \* DTSTART;TZID=Bad/Zone:20260405T100000
     Property("DTSTART", "Bad/Zone", FALSE, DateTimeText(2026, 4, 5, 10, 0, 0)),
     \* DTSTART:not-a-date
     Property("DTSTART", NoTzid, FALSE, OtherText),
     \* DTEND;VALUE=DATE:20260405
     Property("DTEND", NoTzid, TRUE, DateText(2026, 4, 5)),
     \* DTEND:20260405T110000Z
     Property("DTEND", NoTzid, FALSE, DateTimeZText(2026, 4, 5, 11, 0, 0)),
     \* DTEND:20260405T100000Z
     Property("DTEND", NoTzid, FALSE, DateTimeZText(2026, 4, 5, 10, 0, 0)),
     \* DTEND:not-a-date
     Property("DTEND", NoTzid, FALSE, OtherText),
     \* DURATION:P0DT2H0M0S
     Property("DURATION", NoTzid, FALSE, DurationText(0, 2, 0, 0)),
     \* DURATION:P0DT0H0M0S
     Property("DURATION", NoTzid, FALSE, DurationText(0, 0, 0, 0)),
     \* DURATION:P1W
     Property("DURATION", NoTzid, FALSE,
              DurationString(1, Absent, FALSE, Absent, Absent, Absent))}

Periods ==
    {\* 20260405T100000Z/20260405T110000Z
     Period(DateTimeZText(2026, 4, 5, 10, 0, 0), DateTimeZText(2026, 4, 5, 11, 0, 0)),
     \* 20260405T120000/P0DT0H30M0S
     Period(DateTimeText(2026, 4, 5, 12, 0, 0), DurationText(0, 0, 30, 0)),
     \* not-a-date/20260405T110000Z
     Period(OtherText, DateTimeZText(2026, 4, 5, 11, 0, 0)),
     \* 20260405T100000Z/not-an-end
     Period(DateTimeZText(2026, 4, 5, 10, 0, 0), OtherText),
     \* 20260405T100000Z/P0DT0H0M0S
     Period(DateTimeZText(2026, 4, 5, 10, 0, 0), DurationText(0, 0, 0, 0))}

PeriodLists == UNION {[1..n -> Periods] : n \in 1..MaxPeriods}

FreeBusyLines ==
    {Marker("BEGIN:VFREEBUSY"), Marker("END:VFREEBUSY"),
     \* FREEBUSY;TZID=America/New_York:20260405T120000/P0DT0H30M0S
     FreeBusyProperty("America/New_York",
        <<Period(DateTimeText(2026, 4, 5, 12, 0, 0), DurationText(0, 0, 30, 0))>>),
     \* FREEBUSY:20260405T100000Z
     FreeBusyProperty(NoTzid, <<PeriodWithoutSlash(DateTimeZText(2026, 4, 5, 10, 0, 0))>>)}
    \cup {FreeBusyProperty(NoTzid, periods) : periods \in PeriodLists}

\* A feed of VEVENT blocks that differ in how DTSTART is written; its values
\* are on 7 and 8 March 2026: America/New_York goes from -05:00 to -04:00 at
\* 2026-03-08T07:00:00Z, when its clocks read 02:00.
MaxValueLines == 6      \* longest feed of such blocks: two blocks of three lines

ValueLines ==
    {Marker("BEGIN:VEVENT"), Marker("END:VEVENT"),
     \* DTSTART;TZID=America/New_York:20260307T033000
     Property("DTSTART", "America/New_York", FALSE, DateTimeText(2026, 3, 7, 3, 30, 0)),
     \* DTSTART;TZID=America/New_York:20260308T033000
     Property("DTSTART", "America/New_York", FALSE, DateTimeText(2026, 3, 8, 3, 30, 0)),
     \* DTSTART;TZID=America/New_York:20260307T100000
     Property("DTSTART", "America/New_York", FALSE, DateTimeText(2026, 3, 7, 10, 0, 0)),
     \* DTSTART;TZID=America/New_York:20260308T100000
     Property("DTSTART", "America/New_York", FALSE, DateTimeText(2026, 3, 8, 10, 0, 0)),
     \* DTSTART:20260307T100000
     Property("DTSTART", NoTzid, FALSE, DateTimeText(2026, 3, 7, 10, 0, 0)),
     \* DTSTART:20260307T100000-0500
     Property("DTSTART", NoTzid, FALSE,
              OffsetDateTimeText(2026, 3, 7, 10, 0, 0, -1, 5, 0)),
     \* DTSTART:20260307T100000+9999
     Property("DTSTART", NoTzid, FALSE,
              OffsetDateTimeText(2026, 3, 7, 10, 0, 0, 1, 99, 99)),
     \* DTSTART;VALUE=DATE:20260307
     Property("DTSTART", NoTzid, TRUE, DateText(2026, 3, 7)),
     \* DTSTART:20260307T100000Z
     Property("DTSTART", NoTzid, FALSE, DateTimeZText(2026, 3, 7, 10, 0, 0))}

\* The defaultTimeZone argument: absent, a zone, an identifier that is none.
ValueOwners == {NoTzid, "America/New_York", "Not/A_TimeZone"}

FeedKinds == {"VEVENT", "VFREEBUSY"}

FeedLines(feed) ==
    IF feed = "VEVENT" THEN EventLines
    ELSE IF feed = "DTSTART" THEN ValueLines
    ELSE FreeBusyLines

LineLimit(feed) ==
    IF feed = "VEVENT" THEN MaxLines
    ELSE IF feed = "DTSTART" THEN MaxValueLines
    ELSE MaxFreeBusyLines

(***************************************************************************)
(* History of what the feed said, kept beside the parser's own state: the  *)
(* claims about parseFreeBusy are stated against it.                       *)
(***************************************************************************)
\* A period with both parts readable: a date or date-time, then a date,
\* date-time or duration.
WellFormedPeriod(part) ==
    /\ part.complete
    /\ MatchesDate(part.start)
    /\ (MatchesDuration(part.end) \/ MatchesDate(part.end))

\* The instant a FREEBUSY value stands for.
PeriodInstant(value, tzid) == parseICalDate(value, tzid, FALSE, NoTzid).t

PeriodInterval(part, tzid) ==
    [start |-> PeriodInstant(part.start, tzid),
     end   |-> IF MatchesDuration(part.end)
               THEN PeriodInstant(part.start, tzid) + parseDuration(part.end).ms
               ELSE PeriodInstant(part.end, tzid)]

\* The intervals of the well-formed periods of a line, in the order written.
WellFormedIntervals(line) ==
    LET wellFormed == SelectSeq(line.periods, WellFormedPeriod)
    IN [k \in 1..Len(wellFormed) |-> PeriodInterval(wellFormed[k], line.tzid)]

PositiveInterval(block) == block.end > block.start

\* A FREEBUSY line that parseFreeBusyComponents reads.
ReadsPeriods(line, inside) == inside /\ line.name = "FREEBUSY"

\* A value resolved under an explicit TZID that Intl.DateTimeFormat rejects.
UnsupportedExplicitTzid(value, tzid) ==
    /\ tzid # NoTzid
    /\ tzid \notin ValidTimeZones
    /\ value.form \in {"date", "dateTime"}

LineNamesUnsupportedTzid(line, inside, insideEvent) ==
    \/ /\ insideEvent
       /\ line.name \in {"DTSTART", "DTEND"}
       /\ UnsupportedExplicitTzid(line.value, line.tzid)
    \/ /\ ReadsPeriods(line, inside)
       /\ \E k \in 1..Len(line.periods) :
              UnsupportedExplicitTzid(line.periods[k].start, line.tzid)

\* The lines of the open VEVENT block that carry a readable value: the
\* last DTSTART, the last DTEND and the last DURATION.
BlockAfter(line, block, insideEvent) ==
    IF line.name \in {"BEGIN:VEVENT", "END:VEVENT"} THEN EmptyBlock
    ELSE IF ~insideEvent THEN block
    ELSE IF line.name = "DTSTART" /\ DateMatch(line)
    THEN [block EXCEPT !.dtstart = line]
    ELSE IF line.name = "DTEND" /\ DateMatch(line)
    THEN [block EXCEPT !.dtend = line]
    ELSE IF line.name = "DURATION" /\ MatchesDuration(line.value)
    THEN [block EXCEPT !.duration = line]
    ELSE block

(***************************************************************************)
(* The parseFreeBusy call as a state machine.  parseFreeBusyComponents and *)
(* parseEventComponents each run once over the same unfolded lines and     *)
(* share no state, so ParseLine runs the iteration of both loops for the   *)
(* next line of the feed; ParseReturn is the return after the last line.   *)
(***************************************************************************)
InitParse ==
    /\ pPc = "parsing"
    /\ pFeed \in FeedKinds
    /\ pDefaultTz \in OwnerZones
    /\ pLines = 0
    /\ inComponent = FALSE /\ busy = <<>>
    /\ inEvent = FALSE /\ current = EmptyCurrent /\ currentDuration = NoDuration
    /\ events = <<>>
    /\ pWarnings = 0 /\ pResult = <<>>
    /\ hBlock = EmptyBlock /\ hPeriods = <<>>
    /\ hDiscarded = FALSE /\ hMalformed = FALSE /\ hUnsupportedTzid = FALSE
    /\ hStarts = <<>>
    /\ IdleBesidesParse

ParseLine(line) ==
    /\ pPc = "parsing"
    /\ pLines < LineLimit(pFeed)
    /\ pLines' = pLines + 1
    /\ \E fb \in {FreeBusyLine(line, inComponent, busy)} :
       \E ev \in {EventLine(line,
                    [inEvent |-> inEvent, current |-> current,
                     currentDuration |-> currentDuration, events |-> events,
                     warnings |-> 0],
                    pDefaultTz)} :
          /\ inComponent' = fb.inComponent
          /\ busy' = fb.blocks
          /\ inEvent' = ev.inEvent
          /\ current' = ev.current
          /\ currentDuration' = ev.currentDuration
          /\ events' = ev.events
          /\ pWarnings' = pWarnings + fb.warnings + ev.warnings
          /\ hStarts' = IF ev.events # events
                        THEN Append(hStarts, hBlock.dtstart) ELSE hStarts
    /\ hBlock' = BlockAfter(line, hBlock, inEvent)
    /\ hPeriods' =
          IF ReadsPeriods(line, inComponent)
          THEN hPeriods \o SelectSeq(WellFormedIntervals(line), PositiveInterval)
          ELSE hPeriods
    /\ hDiscarded' =
          \/ hDiscarded
          \/ /\ ReadsPeriods(line, inComponent)
             /\ \E k \in 1..Len(line.periods) :
                    /\ WellFormedPeriod(line.periods[k])
                    /\ ~PositiveInterval(PeriodInterval(line.periods[k], line.tzid))
          \/ /\ line.name = "END:VEVENT" /\ inEvent /\ current.hasStart
             /\ ResolveEnd(current, currentDuration).end <= current.start
    /\ hMalformed' =
          \/ hMalformed
          \/ /\ ReadsPeriods(line, inComponent)
             /\ \E j, k \in 1..Len(line.periods) :
                    /\ j < k
                    /\ ~WellFormedPeriod(line.periods[j])
                    /\ WellFormedPeriod(line.periods[k])
                    /\ PositiveInterval(PeriodInterval(line.periods[k], line.tzid))
    /\ hUnsupportedTzid' =
          (hUnsupportedTzid \/ LineNamesUnsupportedTzid(line, inComponent, inEvent))
    /\ UNCHANGED <<pPc, pFeed, pDefaultTz, pResult>>
    /\ UNCHANGED besidesParse

\* return [...busyFromFreeBusy, ...busyFromEvents]
ParseReturn ==
    /\ pPc = "parsing"
    /\ pPc' = "done"
    /\ pResult' = busy \o events
    /\ UNCHANGED <<pFeed, pDefaultTz, pLines, inComponent, busy, inEvent, current,
                   currentDuration, events, pWarnings,
                   hBlock, hPeriods, hDiscarded, hMalformed, hUnsupportedTzid,
                   hStarts>>
    /\ UNCHANGED besidesParse

NextParse ==
    \/ \E line \in FeedLines(pFeed) : ParseLine(line)
    \/ ParseReturn

SpecParse == InitParse /\ [][NextParse]_vars

ParseDone == pPc = "done"

\* parseFreeBusy over a feed of ValueLines, with and without an owner zone.
InitResolve ==
    /\ pPc = "parsing"
    /\ pFeed = "DTSTART"
    /\ pDefaultTz \in ValueOwners
    /\ pLines = 0
    /\ inComponent = FALSE /\ busy = <<>>
    /\ inEvent = FALSE /\ current = EmptyCurrent /\ currentDuration = NoDuration
    /\ events = <<>>
    /\ pWarnings = 0 /\ pResult = <<>>
    /\ hBlock = EmptyBlock /\ hPeriods = <<>>
    /\ hDiscarded = FALSE /\ hMalformed = FALSE /\ hUnsupportedTzid = FALSE
    /\ hStarts = <<>>
    /\ IdleBesidesParse

SpecResolve == InitResolve /\ [][NextParse]_vars

(***************************************************************************)
(* Claims about parseFreeBusy.                                             *)
(***************************************************************************)
EndsAfterStart(blocks) == \A k \in 1..Len(blocks) : blocks[k].end > blocks[k].start

\* C5: every interval parseFreeBusy collects or returns, from a FREEBUSY
\* period or from a VEVENT block, has its end strictly after its start; a
\* period or event resolved with end <= start is not among them.
C5_EndAfterStart ==
    /\ EndsAfterStart(busy)
    /\ EndsAfterStart(events)
    /\ EndsAfterStart(pResult)

\* A feed of events of which one resolved to end <= start and another one
\* was returned.
C5_Witness ==
    /\ ParseDone
    /\ pFeed = "VEVENT"
    /\ hDiscarded
    /\ Len(pResult) = 1

\* C6: once a value with an unsupported explicit TZID has been resolved,
\* parseFreeBusy does not return a result (it throws).
C6_UnsupportedTzidFails == ~(ParseDone /\ hUnsupportedTzid)

\* C7: an unreadable period of a FREEBUSY line is dropped alone: the
\* intervals collected, and then returned first, are those of every
\* well-formed period read (of positive length, C5), in the order written,
\* on the same line and on later lines; the parser raises no error.
C7_BadPeriodDroppedAlone ==
    /\ pPc \in {"parsing", "done"}
    /\ busy = hPeriods
    /\ ParseDone =>
          /\ Len(pResult) >= Len(hPeriods)
          /\ \A k \in 1..Len(hPeriods) : pResult[k] = hPeriods[k]

\* Two FREEBUSY lines read, one of them with an unreadable period before a
\* readable one, and both readable periods returned.
C7_Witness ==
    /\ ParseDone
    /\ pFeed = "VFREEBUSY"
    /\ pLines = 3
    /\ hMalformed
    /\ Len(pResult) = 2
    /\ pResult[1] # pResult[2]

\* Every instant at which the zone's clock reads 00:00:00 of the date is
\* in MidnightInstants; LocalMidnight is the first of them.
LocalMidnight(ymd, tz) ==
    LET midnights == MidnightInstants(ymd, tz)
    IN CHOOSE t \in midnights : \A u \in midnights : t <= u

\* All-day: DTSTART carries VALUE=DATE or has no time component.
AllDayBlock(block) ==
    block.dtstart.valueDate \/ block.dtstart.value.form = "date"

LineInstant(line, owner) ==
    parseICalDate(DateMatchText(line), line.tzid, IsDateOnlyLine(line), owner).t

BlockZone(block, owner) ==
    IF block.dtstart.tzid # NoTzid THEN block.dtstart.tzid ELSE owner

\* start + one owner-local day: local midnight of the day after the date.
OneLocalDayLater(block, owner) ==
    LET zone    == BlockZone(block, owner)
        nextDay == addDaysToYmd(parseYmd(block.dtstart.value), 1)
    IN IF zone \in ValidTimeZones /\ MidnightInstants(nextDay, zone) # {}
       THEN LocalMidnight(nextDay, zone)
       ELSE LineInstant(block.dtstart, owner) + DAY_MS

\* (a) DTEND, (b) start + DURATION, (c) the default.
ChosenEnd(block, owner) ==
    IF block.dtend # NoLine THEN LineInstant(block.dtend, owner)
    ELSE IF block.duration # NoLine
    THEN LineInstant(block.dtstart, owner) + parseDuration(block.duration.value).ms
    ELSE IF AllDayBlock(block) THEN OneLocalDayLater(block, owner)
    ELSE LineInstant(block.dtstart, owner) + 60 * 60

\* The event a block stands for: none without a start, none when the end
\* is not after the start (C5); an all-day event whose chosen end equals
\* its start ends one owner-local day later (C9).
ExpectedEvents(block, owner) ==
    IF block.dtstart = NoLine THEN <<>>
    ELSE LET start  == LineInstant(block.dtstart, owner)
             chosen == ChosenEnd(block, owner)
             end    == IF AllDayBlock(block) /\ chosen = start
                       THEN OneLocalDayLater(block, owner) ELSE chosen
         IN IF end > start THEN <<[start |-> start, end |-> end]>> ELSE <<>>

\* END:VEVENT is the one step that leaves a block.
LeavesBlock == inEvent /\ ~inEvent'

\* C8: at END:VEVENT the block adds the event whose end is the block's own
\* DTEND if one was parsed, else start + its own DURATION, else start + one
\* owner-local day (all-day) or start + one hour (timed), whatever the order
\* of its lines; a block without a start adds nothing; no other step adds
\* an event.
C8_EndResolutionOrder ==
    [][/\ LeavesBlock => events' = events \o ExpectedEvents(hBlock, pDefaultTz)
       /\ events' # events => LeavesBlock]_vars

\* An all-day block, without a TZID of its own, that has neither DTEND nor
\* DURATION or whose chosen end equals its start.
AllDayByDefault(block, owner) ==
    /\ block.dtstart # NoLine
    /\ AllDayBlock(block)
    /\ block.dtstart.tzid = NoTzid
    /\ \/ block.dtend = NoLine /\ block.duration = NoLine
       \/ ChosenEnd(block, owner) = LineInstant(block.dtstart, owner)

\* C9: such a block adds the interval from owner-local midnight of its date
\* to owner-local midnight of the following date.
C9_AllDayIsLocalDay ==
    [][(LeavesBlock /\ AllDayByDefault(hBlock, pDefaultTz)) =>
          events' = Append(events,
              [start |-> LocalMidnight(parseYmd(hBlock.dtstart.value), pDefaultTz),
               end   |-> LocalMidnight(
                            addDaysToYmd(parseYmd(hBlock.dtstart.value), 1),
                            pDefaultTz)])]_vars

(***************************************************************************)
(* utcMillisFromZonedLocal followed by getZonedYmd, as a state machine.    *)
(* The local date-times are every half hour of the days around the         *)
(* transitions of the database, and of two days far from them.             *)
(***************************************************************************)
ZonedDays ==
    {<<1, 15>>, <<3, 7>>, <<3, 8>>, <<3, 9>>, <<4, 4>>, <<4, 5>>, <<4, 6>>,
     <<7, 1>>, <<9, 26>>, <<9, 27>>, <<9, 28>>, <<10, 31>>, <<11, 1>>, <<11, 2>>}

ZonedLocals ==
    {[year |-> 2026, month |-> md[1], day |-> md[2], hour |-> h, minute |-> mi] :
        md \in ZonedDays, h \in 0..23, mi \in {0, 30}}

InitZoned ==
    /\ zPc = "call"
    /\ zZone \in ValidTimeZones
    /\ zLocal \in ZonedLocals
    /\ zInstant = 0
    /\ zYmd = [year |-> 0, month |-> 0, day |-> 0]
    /\ IdleBesidesZoned

ZonedLocalCall ==
    /\ zPc = "call"
    /\ zInstant' = utcMillisFromZonedLocal(
                      [year |-> zLocal.year, month |-> zLocal.month, day |-> zLocal.day],
                      zLocal.hour, zLocal.minute, zZone)
    /\ zPc' = "converted"
    /\ UNCHANGED <<zZone, zLocal, zYmd>>
    /\ UNCHANGED besidesZoned

ZonedYmdCall ==
    /\ zPc = "converted"
    /\ zYmd' = getZonedYmd(zInstant, zZone)
    /\ zPc' = "back"
    /\ UNCHANGED <<zZone, zLocal, zInstant>>
    /\ UNCHANGED besidesZoned

NextZoned == ZonedLocalCall \/ ZonedYmdCall

SpecZoned == InitZoned /\ [][NextZoned]_vars

(***************************************************************************)
(* Claims about the zoned time utility.                                    *)
(***************************************************************************)
\* The instants at which the zone's wall clock reads the local date-time:
\* none inside a spring-forward gap, two inside a fall-back overlap, one
\* otherwise.
WallClockInstants(local, tz) ==
    LET asUtc   == DateUTC(local.year, local.month - 1, local.day,
                           local.hour, local.minute, 0)
        offsets == {TimeZoneDatabase[tz].initial}
                   \cup {TimeZoneDatabase[tz].transitions[k].offset :
                            k \in DOMAIN TimeZoneDatabase[tz].transitions}
    IN {asUtc - off : off \in {o \in offsets : ZoneOffset(tz, asUtc - o) = o}}

ZonedConverted == zPc \in {"converted", "back"}

\* C11: for a local date-time outside every gap the instant returned is one
\* at which the zone's clock reads that date-time: the only one outside an
\* overlap, one of the two inside.
C11_TwoPassOutsideGaps ==
    ZonedConverted =>
        LET instants == WallClockInstants(zLocal, zZone)
        IN instants # {} =>
              /\ zInstant \in instants
              /\ Cardinality(instants) \in {1, 2}
              /\ getZonedParts(zInstant, zZone) =
                    [year |-> zLocal.year, month |-> zLocal.month, day |-> zLocal.day,
                     hour |-> zLocal.hour, minute |-> zLocal.minute, second |-> 0]

\* 01:30 on 1 November in New York occurs twice; one of the two is returned.
C11_Witness ==
    /\ ZonedConverted
    /\ zZone = "America/New_York"
    /\ zLocal = [year |-> 2026, month |-> 11, day |-> 1, hour |-> 1, minute |-> 30]
    /\ WallClockInstants(zLocal, zZone)
          = {DateUTC(2026, 10, 1, 5, 30, 0), DateUTC(2026, 10, 1, 6, 30, 0)}
    /\ zInstant \in WallClockInstants(zLocal, zZone)

ZonedMidnight == zLocal.hour = 0 /\ zLocal.minute = 0

ZonedDate == [year |-> zLocal.year, month |-> zLocal.month, day |-> zLocal.day]

DurationStrings ==
    {DurationString(w, d, t, h, m, s) :
        w \in {Absent, 1}, d \in {Absent, 0, 1, 365, 366, 367, 9999},
        t \in BOOLEAN, h \in {Absent, 0, 23, 24, 9000},
        m \in {Absent, 59, 60}, s \in {Absent, 0, 1}}

InitDuration ==
    /\ dPc = "call"
    /\ dText \in DurationStrings
    /\ dStart = DateTimeZText(2026, 3, 7, 10, 0, 0)
    /\ dResult = [isNaN |-> TRUE, ms |-> 0]
    /\ dBlock = NoBlock
    /\ IdleBesidesDuration

ParseDurationCall ==
    /\ dPc = "call"
    /\ dResult' = parseDuration(dText)
    /\ dPc' = "parsed"
    /\ UNCHANGED <<dText, dStart, dBlock>>
    /\ UNCHANGED besidesDuration

\* parseFreeBusyPeriod of the period written start/value
PeriodCall ==
    /\ dPc = "parsed"
    /\ dBlock' = parseFreeBusyPeriod(Period(dStart, dText), NoTzid)
    /\ dPc' = "built"
    /\ UNCHANGED <<dText, dStart, dResult>>
    /\ UNCHANGED besidesDuration

NextDuration == ParseDurationCall \/ PeriodCall

SpecDuration == InitDuration /\ [][NextDuration]_vars

(***************************************************************************)
(* Claims about parseDuration.                                             *)
(***************************************************************************)
\* The text has the form P[nD][T[nH][nM][nS]].
DayTimeForm(value) ==
    /\ value.week = Absent
    /\ (~value.hasT => value.hour = Absent /\ value.minute = Absent
                                           /\ value.second = Absent)

SecondsOf(group, unit) == IF group = Absent THEN 0 ELSE group * unit

\* The length the text denotes, in seconds.
TotalSeconds(value) ==
    SecondsOf(value.day, SecondsPerDay) + SecondsOf(value.hour, 60 * 60)
        + SecondsOf(value.minute, 60) + SecondsOf(value.second, 1)

DurationParsed == dPc \in {"parsed", "built"}

\* C18: for a text of the form P[nD][T[nH][nM][nS]] parseDuration returns
\* the smaller of its length and 366 days, never NaN; with a week
\* designator it returns NaN; and a period built from a start and a
\* duration is never longer than 366 days.
C18_DurationCapped ==
    /\ (DurationParsed /\ DayTimeForm(dText)) =>
          /\ ~dResult.isNaN
          /\ dResult.ms = Min(TotalSeconds(dText), 366 * SecondsPerDay)
          /\ dResult.ms <= 366 * SecondsPerDay
    /\ (DurationParsed /\ dText.week # Absent) => dResult.isNaN
    /\ (dPc = "built" /\ dBlock.ok) => dBlock.end - dBlock.start <= 366 * SecondsPerDay

\* P9999D is clamped to 366 days, and so is the period built from it.
C18_Witness ==
    /\ dPc = "built"
    /\ dText = DurationString(Absent, 9999, FALSE, Absent, Absent, Absent)
    /\ dResult = [isNaN |-> FALSE, ms |-> 366 * SecondsPerDay]
    /\ dBlock.ok
    /\ dBlock.end - dBlock.start = 366 * SecondsPerDay

(***************************************************************************)
(* unfoldLines.  A text is the sequence of its characters; "x" stands for  *)
(* any character that is neither white space nor part of a line ending.    *)
(***************************************************************************)
MaxRaw == 5     \* longest raw text

Characters == {"x", " ", "\t", "\r", "\n"}

\* What trimEnd removes from the end of a line (a line holds no "\n").
WhiteSpace == {" ", "\t", "\r"}

RECURSIVE trimEnd(_)
trimEnd(line) ==
    IF line # <<>> /\ line[Len(line)] \in WhiteSpace
    THEN trimEnd(SubSeq(line, 1, Len(line) - 1))
    ELSE line

\* raw.split(/\r?\n/): lines holds the pieces cut so far, piece the one
\* being read; a "\r" right before the "\n" belongs to the separator.
RECURSIVE SplitFrom(_, _, _)
SplitFrom(raw, lines, piece) ==
    IF raw = <<>> THEN Append(lines, piece)
    ELSE IF Head(raw) = "\n"
    THEN SplitFrom(Tail(raw),
                   Append(lines,
                          IF piece # <<>> /\ piece[Len(piece)] = "\r"
                          THEN SubSeq(piece, 1, Len(piece) - 1) ELSE piece),
                   <<>>)
    ELSE SplitFrom(Tail(raw), lines, Append(piece, Head(raw)))

split(raw) == SplitFrom(raw, <<>>, <<>>)

\* line.startsWith(" ") || line.startsWith("\t")
StartsWithFold(line) == line # <<>> /\ line[1] \in {" ", "\t"}

\* The body of the loop of unfoldLines.
UnfoldStep(unfolded, line) ==
    IF StartsWithFold(line)
    THEN IF Len(unfolded) = 0 THEN unfolded
         ELSE [unfolded EXCEPT ![Len(unfolded)] = @ \o Tail(line)]
    ELSE Append(unfolded, trimEnd(line))

RECURSIVE UnfoldFrom(_, _)
UnfoldFrom(lines, unfolded) ==
    IF lines = <<>> THEN unfolded
    ELSE UnfoldFrom(Tail(lines), UnfoldStep(unfolded, Head(lines)))

unfoldLines(raw) == UnfoldFrom(split(raw), <<>>)

RawTexts == UNION {[1..n -> Characters] : n \in 0..MaxRaw}

InitUnfold ==
    /\ uPc = "call"
    /\ uRaw \in RawTexts
    /\ uOut = <<>>
    /\ IdleBesidesUnfold

UnfoldCall ==
    /\ uPc = "call"
    /\ uOut' = unfoldLines(uRaw)
    /\ uPc' = "done"
    /\ UNCHANGED uRaw
    /\ UNCHANGED besidesUnfold

NextUnfold == UnfoldCall

SpecUnfold == InitUnfold /\ [][NextUnfold]_vars

(***************************************************************************)
(* Claims about unfoldLines.                                               *)
(***************************************************************************)
NoTrailingWhiteSpace(line) == line = <<>> \/ line[Len(line)] \notin WhiteSpace

\* The logical lines of a sequence of physical lines: a physical line that
\* begins with a space or tab is appended, less that character, to the
\* logical line before it, or dropped when there is none; every logical
\* line is without trailing white space.
RECURSIVE LogicalLines(_, _)
LogicalLines(physical, logical) ==
    IF physical = <<>> THEN logical
    ELSE LogicalLines(Tail(physical),
            IF ~StartsWithFold(Head(physical))
            THEN Append(logical, trimEnd(Head(physical)))
            ELSE IF logical = <<>> THEN logical
            ELSE [logical EXCEPT ![Len(logical)] = trimEnd(@ \o Tail(Head(physical)))])

UnfoldDone == uPc = "done"

\* C19: unfoldLines returns the logical lines of the text in input order,
\* with CRLF and LF line endings alike, and none of them ends in white
\* space, whether its last physical line is a continuation or not.
C19_LogicalLinesTrimmed ==
    UnfoldDone =>
        /\ uOut = LogicalLines(split(uRaw), <<>>)
        /\ \A k \in DOMAIN uOut : NoTrailingWhiteSpace(uOut[k])

(***************************************************************************)
(* Claims about how parseFreeBusy resolves the DTSTART of an event.        *)
(***************************************************************************)
\* The wall-clock fields of a value read as if they were UTC.
WallClockAsUtc(value) ==
    DateUTC(value.year, value.month - 1, value.day,
            value.hour, value.minute, value.second)

\* A date-time qualified by the TZID of a zone.
ZonedDateTimeLine(line) == line.tzid \in ValidTimeZones /\ line.value.form = "dateTime"

SameWallClock(a, b) ==
    /\ a.value.hour = b.value.hour
    /\ a.value.minute = b.value.minute
    /\ a.value.second = b.value.second

\* The wall-clock time of the line occurs, once, on its date in its zone.
ExistsOnItsDate(line) == Cardinality(WallClockInstants(line.value, line.tzid)) = 1

\* The zone's offset in force at the line's local date-time.
OffsetInForce(line) ==
    WallClockAsUtc(line.value)
        - (CHOOSE t \in WallClockInstants(line.value, line.tzid) : TRUE)

\* Two lines with the same wall-clock time, in one zone, on dates between
\* which the zone's offset changes.
StraddleTransition(a, b) ==
    /\ ZonedDateTimeLine(a) /\ ZonedDateTimeLine(b)
    /\ a.tzid = b.tzid
    /\ SameWallClock(a, b)
    /\ ExistsOnItsDate(a) /\ ExistsOnItsDate(b)
    /\ OffsetInForce(a) # OffsetInForce(b)

\* C13: two TZID-qualified date-times with the same wall-clock time on dates
\* before and after a transition of the zone resolve to instants that differ
\* from the whole days between the dates by exactly the change of offset.
C13_OffsetChangeAcrossTransition ==
    ParseDone =>
        \A j, k \in DOMAIN hStarts :
            StraddleTransition(hStarts[j], hStarts[k]) =>
                events[k].start - events[j].start
                    = (WallClockAsUtc(hStarts[k].value) - WallClockAsUtc(hStarts[j].value))
                        - (OffsetInForce(hStarts[k]) - OffsetInForce(hStarts[j]))

\* A floating date-time: no Z, no numeric offset, no TZID.
FloatingLine(line) ==
    line.tzid = NoTzid /\ ~line.valueDate /\ line.value.form = "dateTime"

\* C14: a floating DTSTART is resolved in the owner zone when one is given,
\* and as UTC only when no owner zone is given.
C14_FloatingInOwnerZone ==
    ParseDone =>
        \A k \in DOMAIN hStarts :
            FloatingLine(hStarts[k]) =>
                /\ pDefaultTz = NoTzid =>
                      events[k].start = WallClockAsUtc(hStarts[k].value)
                /\ pDefaultTz \in ValidTimeZones =>
                      events[k].start \in WallClockInstants(hStarts[k].value, pDefaultTz)

\* A date-time carrying a +HHMM or -HHMM suffix.
OffsetLine(line) == line.value.form = "dateTimeOffset"

ValidOffset(value) == value.offsetHour \in 0..23 /\ value.offsetMinute \in 0..59

\* Fixed-offset arithmetic on the wall-clock fields.
FixedOffsetInstant(value) ==
    WallClockAsUtc(value)
        - value.sign * (value.offsetHour * 60 * 60 + value.offsetMinute * 60)

\* C15: an event whose DTSTART carries a numeric offset starts at the
\* instant of fixed-offset arithmetic, whatever the owner zone; with an
\* offset out of range it contributes no interval.
C15_NumericOffset ==
    ParseDone =>
        \A k \in DOMAIN hStarts :
            OffsetLine(hStarts[k]) =>
                /\ ValidOffset(hStarts[k].value)
                /\ events[k].start = FixedOffsetInstant(hStarts[k].value)

\* The step at END:VEVENT of a block whose DTSTART was read.
LeavesBlockWithStart == LeavesBlock /\ hBlock.dtstart # NoLine

\* C16: without an owner zone, a block whose DTSTART is a pure date without
\* TZID adds no interval, and every other block with a DTSTART adds one.
C16_AllDayNeedsOwnerZone ==
    [][(LeavesBlockWithStart /\ pDefaultTz = NoTzid) =>
          IF AllDayBlock(hBlock) /\ hBlock.dtstart.tzid = NoTzid
          THEN events' = events
          ELSE Len(events') = Len(events) + 1]_vars

\* The owner zone identifier is given and is not a zone.
InvalidOwnerZone == pDefaultTz # NoTzid /\ pDefaultTz \notin ValidTimeZones

\* A field whose resolution needs the owner zone: a pure date or a floating
\* date-time, without TZID.
UsesOwnerZone(line) ==
    /\ line # NoLine
    /\ line.tzid = NoTzid
    /\ (line.valueDate \/ line.value.form \in {"date", "dateTime"})

\* The UTC fallback of such a field.
UtcFallback(line) ==
    IF line.valueDate \/ line.value.form = "date"
    THEN DateUTC(line.value.year, line.value.month - 1, line.value.day, 0, 0, 0)
    ELSE WallClockAsUtc(line.value)

\* The step that reads a DTSTART line into the open block.
ReadsStart == hBlock'.dtstart # hBlock.dtstart /\ hBlock'.dtstart # NoLine

\* C17: with an invalid owner zone, reading a DTSTART that needs the owner
\* zone sets the start to the UTC fallback and calls warn; parsing goes on.
C17_InvalidOwnerFallsBack ==
    [][(InvalidOwnerZone /\ ReadsStart /\ UsesOwnerZone(hBlock'.dtstart)) =>
          /\ current'.hasStart
          /\ current'.start = UtcFallback(hBlock'.dtstart)
          /\ pWarnings' > pWarnings
          /\ pPc' = "parsing"]_vars

(***************************************************************************)
(* RateLimitDurable.fetch (rateLimit.ts).  A request is its method,        *)
(* whether its body is JSON, and the scopes of the body (the single-scope  *)
(* payload is the list of that one scope); a limit or windowMs of 0 stands *)
(* for every value that is not a finite positive number, an empty key for  *)
(* a missing one.  Every request gives the same limit for a key and the    *)
(* same windowMs.  The storage operations that fetch awaits let no other   *)
(* request in, so a fetch is one step.                                     *)
(***************************************************************************)
MaxLimit == 2       \* largest limit
MaxWindowMs == 2    \* largest windowMs
MaxNow == 2         \* latest reading of the clock
MaxFetches == 3     \* most requests in one run

Keys == {"ip", "global"}

NoKey == ""

NoCounter == [stored |-> FALSE, count |-> 0, windowStart |-> 0]

StoredCounter(count, windowStart) ==
    [stored |-> TRUE, count |-> count, windowStart |-> windowStart]

NoResponse == [status |-> 0, allowed |-> FALSE, scopes |-> <<>>]

Scope(key, limit, windowMs) == [key |-> key, limit |-> limit, windowMs |-> windowMs]

AllowedOneMore(count, parsedLimit) == count <= parsedLimit + 1

\* const allowed = count <= parsedLimit
Allowed(count, parsedLimit) == count <= parsedLimit

\* The loop body with the count carried into the new window.
CountScopeKeepsCount(scope, store, now) ==
    Bind(IF store[scope.key].stored THEN store[scope.key] ELSE StoredCounter(0, now),
         LAMBDA cur :
    Bind(IF now - cur.windowStart >= scope.windowMs
         THEN StoredCounter(cur.count + 1, now)
         ELSE StoredCounter(cur.count + 1, cur.windowStart), LAMBDA counted :
        [storage |-> [store EXCEPT ![scope.key] = counted],
         outcome |-> [label     |-> scope.key,
                      allowed   |-> Allowed(counted.count, scope.limit),
                      remaining |-> IF Allowed(counted.count, scope.limit)
                                    THEN scope.limit - counted.count ELSE 0,
                      reset     |-> counted.windowStart + scope.windowMs,
                      limit     |-> scope.limit,
                      windowMs  |-> scope.windowMs]]))

\* The loop body for a scope whose limit and windowMs are valid: read the
\* counter, start a new window if the old one is over, count, store.
CountScope(scope, store, now) ==
    Bind(IF store[scope.key].stored THEN store[scope.key] ELSE StoredCounter(0, now),
         LAMBDA cur :
    Bind(IF now - cur.windowStart >= scope.windowMs
         THEN StoredCounter(1, now)
         ELSE StoredCounter(cur.count + 1, cur.windowStart), LAMBDA counted :
        [storage |-> [store EXCEPT ![scope.key] = counted],
         outcome |-> [label     |-> scope.key,
                      allowed   |-> Allowed(counted.count, scope.limit),
                      remaining |-> IF Allowed(counted.count, scope.limit)
                                    THEN scope.limit - counted.count ELSE 0,
                      reset     |-> counted.windowStart + scope.windowMs,
                      limit     |-> scope.limit,
                      windowMs  |-> scope.windowMs]]))

\* for (const scope of scopes): a bad limit or windowMs answers 400 and
\* leaves the scopes before it counted.
RECURSIVE ForEachScope(_, _, _, _)
ForEachScope(scopes, store, now, results) ==
    IF scopes = <<>> THEN [storage |-> store, status |-> 200, results |-> results]
    ELSE IF Head(scopes).limit <= 0 \/ Head(scopes).windowMs <= 0
    THEN [storage |-> store, status |-> 400, results |-> results]
    ELSE Bind(CountScope(Head(scopes), store, now), LAMBDA c :
            ForEachScope(Tail(scopes), c.storage, now, Append(results, c.outcome)))

fetch(request, store, now) ==
    IF request.method # "POST"
    THEN [storage |-> store, status |-> 405, results |-> <<>>]
    ELSE IF ~request.json
    THEN [storage |-> store, status |-> 400, results |-> <<>>]
    ELSE IF \/ request.scopes = <<>>
            \/ \E i \in DOMAIN request.scopes : request.scopes[i].key = NoKey
    THEN [storage |-> store, status |-> 400, results |-> <<>>]
    ELSE ForEachScope(request.scopes, store, now, <<>>)

\* Response.json({ allowed: overallAllowed, scopes: results }), or the error
ResponseOf(fetched) ==
    IF fetched.status = 200
    THEN [status  |-> 200,
          allowed |-> \A i \in DOMAIN fetched.results : fetched.results[i].allowed,
          scopes  |-> fetched.results]
    ELSE [NoResponse EXCEPT !.status = fetched.status]

\* The scopes a request may carry: for each key the valid one, one with a
\* bad limit and one with a bad windowMs; and one without a key.
RequestScopes ==
    {Scope(NoKey, 1, rlWindowMs)}
    \cup {Scope(key, limits[key], rlWindowMs) : key \in Keys}
    \cup {Scope(key, 0, rlWindowMs) : key \in Keys}
    \cup {Scope(key, limits[key], 0) : key \in Keys}

ScopeLists ==
    {<<>>} \cup {<<scope>> : scope \in RequestScopes}
           \cup {pair \in RequestScopes \X RequestScopes : pair[1].key # pair[2].key}

Requests ==
    {[method |-> "GET", json |-> TRUE, scopes |-> <<>>],
     [method |-> "POST", json |-> FALSE, scopes |-> <<>>]}
    \cup {[method |-> "POST", json |-> TRUE, scopes |-> scopes] : scopes \in ScopeLists}

\* What the history keeps of the scopes of a key counted by one fetch.
SeenOf(key, results, now) ==
    LET mine == SelectSeq(results, LAMBDA outcome : outcome.label = key)
    IN [i \in 1..Len(mine) |->
            [at |-> now, allowed |-> mine[i].allowed, remaining |-> mine[i].remaining]]

InitLimiter ==
    /\ storage = [key \in Keys |-> NoCounter]
    /\ clock = 0
    /\ limits \in [Keys -> 1..MaxLimit]
    /\ rlWindowMs \in 1..MaxWindowMs
    /\ response = NoResponse
    /\ fetches = 0
    /\ hSeen = [key \in Keys |-> <<>>]
    /\ IdleBesidesLimiter

Fetch(request) ==
    /\ fetches < MaxFetches
    /\ fetches' = fetches + 1
    /\ \E fetched \in {fetch(request, storage, clock)} :
          /\ storage' = fetched.storage
          /\ response' = ResponseOf(fetched)
          /\ hSeen' = [key \in Keys |->
                          hSeen[key] \o SeenOf(key, fetched.results, clock)]
    /\ UNCHANGED <<clock, limits, rlWindowMs>>
    /\ UNCHANGED besidesLimiter

\* Time passes between requests.
Tick ==
    /\ clock < MaxNow
    /\ clock' = clock + 1
    /\ UNCHANGED <<storage, limits, rlWindowMs, response, fetches, hSeen>>
    /\ UNCHANGED besidesLimiter

NextLimiter ==
    \/ \E request \in Requests : Fetch(request)
    \/ Tick

SpecLimiter == InitLimiter /\ [][NextLimiter]_vars

(***************************************************************************)
(* Claims about RateLimitDurable.                                          *)
(***************************************************************************)
\* The counting window of the i-th counted request of a key, and how many
\* requests of that window have been counted up to it: a window starts with
\* the first request, and with the first request that comes windowMs or
\* more after the start of the window before.
RECURSIVE WindowAt(_, _, _)
WindowAt(seen, i, windowMs) ==
    IF i = 1 THEN [start |-> seen[1].at, counted |-> 1]
    ELSE LET before == WindowAt(seen, i - 1, windowMs)
         IN IF seen[i].at - before.start >= windowMs
            THEN [start |-> seen[i].at, counted |-> 1]
            ELSE [start |-> before.start, counted |-> before.counted + 1]

\* The requests up to the i-th that fall in its window and were allowed.
AllowedInWindow(seen, i, windowMs) ==
    {j \in 1..i : /\ WindowAt(seen, j, windowMs).start = WindowAt(seen, i, windowMs).start
                  /\ seen[j].allowed}

\* C20: within one counting window of a key at most limit requests are
\* allowed; the request numbered limit + 1 and every later one of the
\* window is answered allowed = false with remaining 0; an allowed request
\* is answered remaining = limit less the requests counted so far in the
\* window, never negative; and the response carries these outcomes.
C20_AtMostLimitPerWindow ==
    /\ \A key \in Keys : \A i \in DOMAIN hSeen[key] :
          LET counted == WindowAt(hSeen[key], i, rlWindowMs).counted
          IN /\ hSeen[key][i].allowed <=> counted <= limits[key]
             /\ hSeen[key][i].remaining =
                   IF counted <= limits[key] THEN limits[key] - counted ELSE 0
             /\ hSeen[key][i].remaining >= 0
             /\ Cardinality(AllowedInWindow(hSeen[key], i, rlWindowMs)) <= limits[key]
    /\ response.status = 200 =>
          /\ \A i \in DOMAIN response.scopes :
                LET last == hSeen[response.scopes[i].label]
                                 [Len(hSeen[response.scopes[i].label])]
                IN /\ response.scopes[i].allowed = last.allowed
                   /\ response.scopes[i].remaining = last.remaining
          /\ response.allowed <=>
                \A i \in DOMAIN response.scopes : response.scopes[i].allowed

\* Three requests for a key of limit 2 at one reading of the clock: the
\* third is refused.
C20_Witness ==
    /\ limits["ip"] = 2
    /\ hSeen["ip"] = <<[at |-> 0, allowed |-> TRUE, remaining |-> 1],
                       [at |-> 0, allowed |-> TRUE, remaining |-> 0],
                       [at |-> 0, allowed |-> FALSE, remaining |-> 0]>>
    /\ response.status = 200
    /\ ~response.allowed
    /\ storage["ip"] = StoredCounter(3, 0)

\* The outcomes for a key in a response.
OutcomesFor(key, answer) ==
    {answer.scopes[i] : i \in {j \in DOMAIN answer.scopes : answer.scopes[j].label = key}}

\* The step counts a request for the key.
Counts(key) == storage'[key] # storage[key]

\* windowMs has elapsed since the key's stored windowStart.
WindowElapsed(key) ==
    storage[key].stored /\ clock - storage[key].windowStart >= rlWindowMs

Covered(s) ==
    {t \in MergeInstants :
        \E k \in DOMAIN s : s[k].startMsUtc <= t /\ t < s[k].endMsUtc}

\* The instants of the half-open window.
WindowInstants(ws, we) == {t \in MergeInstants : ws <= t /\ t < we}

\* C25: the instants covered by the output of clipAndMerge are exactly the
\* instants covered by the inputs that lie in
\* [windowStart, windowEndExclusive): merging loses no busy time and
\* invents none.
C25_CoverageKept ==
    MergeDone =>
        Covered(mMerged) =
            Covered(mIntervals) \cap WindowInstants(mWindowStart, mWindowEnd)

\* Three inputs given out of order, one of them straddling the window
\* start, and the last instant of the window free: the output covers the
\* part of the inputs inside the window and nothing else.
C25_Witness ==
    /\ MergeDone
    /\ Len(mIntervals) = 3
    /\ mWindowStart = 1 /\ mWindowEnd = 3
    /\ mIntervals[1].startMsUtc > mIntervals[2].startMsUtc
    /\ \E j \in DOMAIN mIntervals :
          mIntervals[j].startMsUtc < mWindowStart /\ mIntervals[j].endMsUtc > mWindowStart
    /\ Covered(mIntervals) = {0, 1}
    /\ Len(mMerged) = 1
    /\ Covered(mMerged) = {1}

(***************************************************************************)
(* The window and its reference instant.                                   *)
(***************************************************************************)
\* The date's local midnight does not exist in the zone (spring-forward gap).
MidnightMissing(ymd, tz) == MidnightInstants(ymd, tz) = {}

AnsweredBadRequest == fetches' = fetches + 1 /\ response'.status = 400

\* C26: a request RateLimitDurable answers with 400 bad_request has
\* modified no stored counter, the counters of valid scopes listed before
\* the invalid one included.
C26_BadRequestCountsNothing ==
    [][AnsweredBadRequest => storage' = storage]_vars

(***************************************************************************)
(* RateLimitDurable.fetch, rateLimit.ts, one step per await: several calls *)
(* for one key in flight in one object.  Each call is a valid one-scope    *)
(* POST.  The object's storage is a DurableObjectStorage: while a get or a *)
(* put of it is awaited the object is delivered no other event (a new      *)
(* request, a request body), only the completion of that operation.        *)
(***************************************************************************)
MaxCalls == 3       \* calls in flight at most

CallIds == 1..MaxCalls

TheKey == "ip"

NoCall == [pc |-> "idle", now |-> 0, counted |-> NoCounter,
           outcome |-> [allowed |-> FALSE, remaining |-> 0], among |-> {}]

\* The calls that have been received and have not answered.
InFlight == {id \in CallIds : cCalls[id].pc \in {"json", "get", "put"}}

\* A storage operation of some call is awaited.
StorageAwaited == \E id \in CallIds : cCalls[id].pc \in {"get", "put"}

InputGateAlwaysOpen == TRUE

\* private storage: DurableObjectStorage: events other than the completion
\* of the awaited storage operation wait for it.
InputGateOpen == ~StorageAwaited

InitConcurrent ==
    /\ cCalls = [id \in CallIds |-> NoCall]
    /\ cStorage = [key \in {TheKey} |-> NoCounter]
    /\ cClock = 0
    /\ cLimit \in 1..MaxLimit
    /\ cWindowMs \in 1..MaxWindowMs
    /\ cSeen = <<>>
    /\ IdleBesidesConcurrent

\* fetch is called and runs to await request.json().  The calls are
\* numbered in the order in which they are received.
Receive(id) ==
    /\ InputGateOpen
    /\ cCalls[id].pc = "idle"
    /\ \A earlier \in 1..(id - 1) : cCalls[earlier].pc # "idle"
    /\ cCalls' = [cCalls EXCEPT ![id].pc = "json", ![id].among = InFlight]
    /\ UNCHANGED <<cStorage, cClock, cLimit, cWindowMs, cSeen>>
    /\ UNCHANGED besidesConcurrent

\* The body is read: the scopes are checked, now = Date.now(), and the loop
\* runs to await this.storage.get(scope.key).
JsonRead(id) ==
    /\ InputGateOpen
    /\ cCalls[id].pc = "json"
    /\ cCalls' = [cCalls EXCEPT ![id].pc = "get", ![id].now = cClock]
    /\ UNCHANGED <<cStorage, cClock, cLimit, cWindowMs, cSeen>>
    /\ UNCHANGED besidesConcurrent

\* The get completes with the counter stored at that moment; count,
\* windowStart, allowed and remaining are computed, and the loop runs to
\* await this.storage.put(scope.key, { count, windowStart }).
GetReturns(id) ==
    /\ cCalls[id].pc = "get"
    /\ \E c \in {CountScope(Scope(TheKey, cLimit, cWindowMs), cStorage, cCalls[id].now)} :
          cCalls' = [cCalls EXCEPT ![id].pc = "put",
                                   ![id].counted = c.storage[TheKey],
                                   ![id].outcome = [allowed   |-> c.outcome.allowed,
                                                    remaining |-> c.outcome.remaining]]
    /\ UNCHANGED <<cStorage, cClock, cLimit, cWindowMs, cSeen>>
    /\ UNCHANGED besidesConcurrent

\* The put completes: the counter is stored, the outcome pushed and the
\* response returned.
PutReturns(id) ==
    /\ cCalls[id].pc = "put"
    /\ cStorage' = [cStorage EXCEPT ![TheKey] = cCalls[id].counted]
    /\ cSeen' = Append(cSeen, [at        |-> cCalls[id].now,
                               allowed   |-> cCalls[id].outcome.allowed,
                               remaining |-> cCalls[id].outcome.remaining])
    /\ cCalls' = [cCalls EXCEPT ![id].pc = "done"]
    /\ UNCHANGED <<cClock, cLimit, cWindowMs>>
    /\ UNCHANGED besidesConcurrent

\* Time passes.
TickConcurrent ==
    /\ cClock < MaxNow
    /\ cClock' = cClock + 1
    /\ UNCHANGED <<cCalls, cStorage, cLimit, cWindowMs, cSeen>>
    /\ UNCHANGED besidesConcurrent

NextConcurrent ==
    \/ \E id \in CallIds : Receive(id)
    \/ \E id \in CallIds : JsonRead(id)
    \/ \E id \in CallIds : GetReturns(id)
    \/ \E id \in CallIds : PutReturns(id)
    \/ TickConcurrent

SpecConcurrent == InitConcurrent /\ [][NextConcurrent]_vars

\* Every call has answered.
AllAnswered == \A id \in CallIds : cCalls[id].pc = "done"

MaxCached == 2      \* longest cached parse result
MaxServed == 2      \* most requests served from one cached result

\* The objects an array refers to, in the array's order.
Values(h, refs) == [i \in DOMAIN refs |-> h[refs[i]]]

MapInPlace(h, ref, ws, we) ==
    [heap |-> [h EXCEPT ![ref] = ClipInterval(h[ref], ws, we)], ref |-> ref]

\* return { startMsUtc, endMsUtc, kind: interval.kind }: a new object
MapToNewObject(h, ref, ws, we) ==
    [heap |-> Append(h, ClipInterval(h[ref], ws, we)), ref |-> Len(h) + 1]

\* intervals.map(...): a new array
RECURSIVE MapRefs(_, _, _, _, _)
MapRefs(h, refs, ws, we, out) ==
    IF refs = <<>> THEN [heap |-> h, refs |-> out]
    ELSE Bind(MapToNewObject(h, Head(refs), ws, we), LAMBDA m :
            MapRefs(m.heap, Tail(refs), ws, we, Append(out, m.ref)))

\* .filter(...): a new array of the same objects
FilterRefs(h, refs, ws, we) ==
    SelectSeq(refs, LAMBDA r : KeepInterval(h[r], ws, we))

RECURSIVE InsertRefByStart(_, _, _)
InsertRefByStart(h, x, s) ==
    IF s = <<>> THEN <<x>>
    ELSE IF h[Head(s)].startMsUtc <= h[x].startMsUtc
         THEN <<Head(s)>> \o InsertRefByStart(h, x, Tail(s))
         ELSE <<x>> \o s

\* relevant.sort(...): reorders the array relevant, which map and filter made
RECURSIVE SortRefsByStart(_, _)
SortRefsByStart(h, s) ==
    IF s = <<>> THEN <<>>
    ELSE InsertRefByStart(h, s[Len(s)], SortRefsByStart(h, SubSeq(s, 1, Len(s) - 1)))

\* One iteration of the sweep: merged.push({ ...current }) stores a copy,
\* last.endMsUtc = ... and last.kind = ... write the object merged ends with.
SweepRefStep(h, merged, cur) ==
    IF merged = <<>> \/ ~Touches(h[cur], h[merged[Len(merged)]])
    THEN [heap |-> Append(h, h[cur]), merged |-> Append(merged, Len(h) + 1)]
    ELSE Bind(merged[Len(merged)], LAMBDA lastRef :
            [heap |-> [h EXCEPT ![lastRef] =
                         [startMsUtc |-> h[lastRef].startMsUtc,
                          endMsUtc   |-> Max(h[lastRef].endMsUtc, h[cur].endMsUtc),
                          kind       |-> MergeKind(h[lastRef].kind, h[cur].kind)]],
             merged |-> merged])

RECURSIVE SweepRefs(_, _, _)
SweepRefs(h, merged, rest) ==
    IF rest = <<>> THEN [heap |-> h, merged |-> merged]
    ELSE Bind(SweepRefStep(h, merged, Head(rest)), LAMBDA step :
            SweepRefs(step.heap, step.merged, Tail(rest)))

\* clipAndMerge(intervals, ...): the heap after the call, the array it was
\* given, which no statement of it writes, and the array it returns.
clipAndMergeRefs(h, intervals, ws, we) ==
    Bind(MapRefs(h, intervals, ws, we, <<>>), LAMBDA mapped :
    Bind(SortRefsByStart(mapped.heap, FilterRefs(mapped.heap, mapped.refs, ws, we)),
         LAMBDA sorted :
    Bind(SweepRefs(mapped.heap, <<>>, sorted), LAMBDA swept :
        [heap |-> swept.heap, intervals |-> intervals, merged |-> swept.merged])))

(***************************************************************************)
(* The worker's cached parse result served to several requests: each       *)
(* request hands cached.busy to clipAndMerge with its own window.          *)
(***************************************************************************)
InitCache ==
    /\ objects \in SeqsUpTo(MergeIntervalSet, MaxCached)
    /\ cachedBusy = [i \in 1..Len(objects) |-> i]
    /\ served = 0
    /\ servedWindow = <<0, 0>>
    /\ windowsDiffer = FALSE
    /\ lastBusy = <<>>
    /\ hParsed = objects
    /\ IdleBesidesCache

\* fetchUpstream returns cached.busy and handleFreeBusy clips and merges it.
\* The objects only the call's own arrays refer to are dropped after it.
ServeFromCache(ws, we) ==
    /\ served < MaxServed
    /\ ws < we
    /\ \E result \in {clipAndMergeRefs(objects, cachedBusy, ws, we)} :
          /\ objects' = SubSeq(result.heap, 1, Len(objects))
          /\ cachedBusy' = result.intervals
          /\ lastBusy' = Values(result.heap, result.merged)
    /\ served' = served + 1
    /\ servedWindow' = <<ws, we>>
    /\ windowsDiffer' = (windowsDiffer \/ (served > 0 /\ servedWindow # <<ws, we>>))
    /\ UNCHANGED hParsed
    /\ UNCHANGED besidesCache

NextCache == \E ws, we \in MergeInstants : ServeFromCache(ws, we)

SpecCache == InitCache /\ [][NextCache]_vars

\* C29: clipAndMerge leaves its input sequence and every interval record in
\* it unchanged: the parse result the worker's cache holds is the same
\* before and after any number of requests served from it, whatever their
\* windows.
C29_CachedResultUnchanged ==
    Values(objects, cachedBusy) = hParsed

\* Two requests with different windows served from a cached result of two
\* overlapping intervals of different kinds, reaching outside the second
\* window: the second answer is one clipped allDay interval, and the cached
\* result is as it was.
C29_Witness ==
    /\ served = 2
    /\ windowsDiffer
    /\ Len(hParsed) = 2
    /\ hParsed[1].kind = "time" /\ hParsed[2].kind = "allDay"
    /\ hParsed[1].startMsUtc < servedWindow[1]
    /\ hParsed[2].endMsUtc > servedWindow[2]
    /\ lastBusy = <<[startMsUtc |-> servedWindow[1], endMsUtc |-> servedWindow[2],
                     kind |-> "allDay"]>>
    /\ lastBusy = clipAndMerge(hParsed, servedWindow[1], servedWindow[2])
    /\ Values(objects, cachedBusy) = hParsed

(***************************************************************************)
(* The worker, index.ts: the fetch handler, one step per await, several    *)
(* requests in flight in one isolate.  The eight module-level caches are   *)
(* written together (all parsed from one env, or all cleared), so they are *)
(* one variable.  A parse result is the reading of the clock at which the  *)
(* feed was read.                                                          *)
(***************************************************************************)
MaxRequests == 3    \* requests in one run
MaxTime == 2        \* latest reading of the clock
CacheTtl == 2       \* CACHE_TTL_SECONDS of every valid env

RequestIds == 1..MaxRequests

NullCaches == ""

NoCached == [held |-> FALSE, fetchedAt |-> 0, busy |-> 0]

CachedData(fetchedAt, parsed) == [held |-> TRUE, fetchedAt |-> fetchedAt, busy |-> parsed]

NoBusy == -1

\* The envs a request may come with: valid ones differing in their CORS
\* allowlist, one with the endpoint switched off, one that fails validateEnv.
Envs ==
    [env \in {"A", "B", "off", "bad"} |->
        [valid          |-> env # "bad",
         enabled        |-> env # "off",
         allowedOrigins |-> IF env = "B" THEN {"app", "partner"} ELSE {"app"}]]

\* Method and path, env and Origin header of the requests.
RequestKinds ==
    {[route |-> "freebusy", env |-> "A", origin |-> "app"],
     [route |-> "freebusy", env |-> "A", origin |-> "partner"],
     [route |-> "freebusy", env |-> "B", origin |-> "partner"],
     [route |-> "freebusy", env |-> "bad", origin |-> "app"],
     [route |-> "freebusy", env |-> "off", origin |-> "app"],
     [route |-> "health", env |-> "A", origin |-> "app"],
     [route |-> "options", env |-> "A", origin |-> "partner"],
     [route |-> "other", env |-> "A", origin |-> "app"]}

NoAnswer == [status |-> 0, error |-> "", busy |-> NoBusy, cors |-> NullCaches,
             config |-> NullCaches]

NoRequest ==
    [pc |-> "idle", request |-> [route |-> "", env |-> "", origin |-> ""],
     now |-> 0, limiterCalled |-> FALSE, limiter |-> "", upstreamFetched |-> FALSE,
     fromCache |-> FALSE, parsed |-> FALSE, among |-> {}, answer |-> NoAnswer]

\* tryGetAllowedOrigins and applyCors: false only for an Origin that the
\* allowlist now cached does not hold.
applyCors(origin, caches) ==
    caches = NullCaches \/ origin \in Envs[caches].allowedOrigins

\* jsonResponse(request, body, status): the CORS check reads the allowlist
\* cached when the response is built, and is left out when there is none.
jsonResponse(origin, status, error, parsed, config, caches) ==
    IF ~applyCors(origin, caches)
    THEN [status |-> 403, error |-> "forbidden_origin", busy |-> NoBusy,
          cors |-> caches, config |-> NullCaches]
    ELSE [status |-> status, error |-> error, busy |-> parsed,
          cors |-> caches, config |-> config]

\* An exception that leaves the fetch handler: the runtime's error page.
Uncaught == [status |-> 500, error |-> "exception", busy |-> NoBusy,
             cors |-> NullCaches, config |-> NullCaches]

\* handleOptions
optionsResponse(origin, caches) ==
    IF ~applyCors(origin, caches)
    THEN [NoAnswer EXCEPT !.status = 403, !.cors = caches]
    ELSE [NoAnswer EXCEPT !.status = 204, !.cors = caches]

\* handleFreeBusy after fetchUpstream has returned busy: buildWindowV2 with
\* windowWeeksCache, clipAndMerge, the body with weekStartDayCache and
\* getWorkingHours(), which throws outside every try when the caches are
\* cleared, and jsonResponse.
Respond(origin, parsed, caches) ==
    IF caches = NullCaches THEN Uncaught
    ELSE jsonResponse(origin, 200, "", parsed, caches, caches)

Done(req, answer) == [req EXCEPT !.pc = "done", !.answer = answer]

InFlightRequests == {id \in RequestIds : requests[id].pc \notin {"idle", "done"}}

InitWorker ==
    /\ envCaches = NullCaches
    /\ cached = NoCached
    /\ requests = [id \in RequestIds |-> NoRequest]
    /\ dateNow = 0
    /\ IdleBesidesWorker

\* export default fetch, to its first await or its return.  Requests are
\* numbered in the order in which they arrive.
Arrive(id, kind) ==
    /\ requests[id].pc = "idle"
    /\ \A earlier \in 1..(id - 1) : requests[earlier].pc # "idle"
    /\ \E caches \in {IF Envs[kind.env].valid THEN kind.env ELSE NullCaches},
          req \in {[requests[id] EXCEPT !.request = kind, !.among = InFlightRequests]} :
          /\ envCaches' = caches
          /\ requests' = [requests EXCEPT ![id] =
                IF ~Envs[kind.env].valid
                THEN Done(req, jsonResponse(kind.origin, 500, "misconfigured", NoBusy,
                                            NullCaches, caches))
                ELSE IF kind.route = "options"
                THEN Done(req, optionsResponse(kind.origin, caches))
                ELSE IF kind.route = "health"
                THEN Done(req, jsonResponse(kind.origin, 200, "", NoBusy, NullCaches, caches))
                ELSE IF kind.route = "freebusy"
                THEN IF ~Envs[kind.env].enabled
                     THEN Done(req, jsonResponse(kind.origin, 503, "disabled", NoBusy,
                                                 NullCaches, caches))
                     ELSE [req EXCEPT !.pc = "awaitLimiter", !.limiterCalled = TRUE]
                ELSE Done(req, jsonResponse(kind.origin, 404, "not_found", NoBusy,
                                            NullCaches, caches))]
    /\ UNCHANGED <<cached, dateNow>>
    /\ UNCHANGED besidesWorker

\* await enforceRateLimit(...) settles: denied, thrown, or allowed and on
\* into fetchUpstream up to its await fetch(...), or through it when the
\* cache is fresh.
LimiterReturns(id, outcome) ==
    /\ requests[id].pc = "awaitLimiter"
    /\ \E req \in {[requests[id] EXCEPT !.limiter = outcome, !.now = dateNow]} :
          requests' = [requests EXCEPT ![id] =
             IF outcome = "denied"
             THEN Done(req, jsonResponse(req.request.origin, 429, "rate_limited", NoBusy,
                                         NullCaches, envCaches))
             ELSE IF outcome = "throws"
             THEN Done(req, jsonResponse(req.request.origin, 502, "upstream_error", NoBusy,
                                         NullCaches, envCaches))
             ELSE IF envCaches = NullCaches
             THEN Done(req, jsonResponse(req.request.origin, 502, "upstream_error", NoBusy,
                                         NullCaches, envCaches))
             ELSE IF cached.held /\ dateNow - cached.fetchedAt < CacheTtl
             THEN Done([req EXCEPT !.fromCache = TRUE],
                       Respond(req.request.origin, cached.busy, envCaches))
             ELSE [req EXCEPT !.pc = "awaitUpstream", !.upstreamFetched = TRUE]]
    /\ UNCHANGED <<envCaches, cached, dateNow>>
    /\ UNCHANGED besidesWorker

\* await fetch(env.FREEBUSY_ICAL_URL, ...) settles: rejected, not ok or of
\* another content type, or ok and on to await readLimitedText(...).
UpstreamReturns(id, ok) ==
    /\ requests[id].pc = "awaitUpstream"
    /\ requests' = [requests EXCEPT ![id] =
          IF ~ok \/ envCaches = NullCaches
          THEN Done(requests[id],
                    jsonResponse(requests[id].request.origin, 502, "upstream_error", NoBusy,
                                 NullCaches, envCaches))
          ELSE [requests[id] EXCEPT !.pc = "awaitBody"]]
    /\ UNCHANGED <<envCaches, cached, dateNow>>
    /\ UNCHANGED besidesWorker

\* await readLimitedText(...) settles: thrown (too large), or the text is
\* parsed, cached = { fetchedAt: now, busy } with the now read before the
\* awaits, and handleFreeBusy answers.
BodyRead(id, ok) ==
    /\ requests[id].pc = "awaitBody"
    /\ IF ok
       THEN /\ cached' = CachedData(requests[id].now, dateNow)
            /\ requests' = [requests EXCEPT ![id] =
                  Done([requests[id] EXCEPT !.parsed = TRUE],
                       Respond(requests[id].request.origin, dateNow, envCaches))]
       ELSE /\ cached' = cached
            /\ requests' = [requests EXCEPT ![id] =
                  Done(requests[id],
                       jsonResponse(requests[id].request.origin, 502, "upstream_error",
                                    NoBusy, NullCaches, envCaches))]
    /\ UNCHANGED <<envCaches, dateNow>>
    /\ UNCHANGED besidesWorker

\* Time passes.
TimePasses ==
    /\ dateNow < MaxTime
    /\ dateNow' = dateNow + 1
    /\ UNCHANGED <<envCaches, cached, requests>>
    /\ UNCHANGED besidesWorker

NextWorker ==
    \/ \E id \in RequestIds, kind \in RequestKinds : Arrive(id, kind)
    \/ \E id \in RequestIds, outcome \in {"allowed", "denied", "throws"} :
          LimiterReturns(id, outcome)
    \/ \E id \in RequestIds, ok \in BOOLEAN : UpstreamReturns(id, ok)
    \/ \E id \in RequestIds, ok \in BOOLEAN : BodyRead(id, ok)
    \/ TimePasses

SpecWorker == InitWorker /\ [][NextWorker]_vars

(***************************************************************************)
(* Claims about the worker.                                                *)
(***************************************************************************)
\* A GET /freebusy request that reaches handleFreeBusy.
FreeBusyRequest(req) ==
    /\ req.pc # "idle"
    /\ req.request.route = "freebusy"
    /\ Envs[req.request.env].valid
    /\ Envs[req.request.env].enabled

Answered(req) == req.pc = "done"

\* The request's Origin is not in the allowlist of its env.
OriginNotAllowed(req) ==
    req.request.origin \notin Envs[req.request.env].allowedOrigins

\* C22: an upstream fetch and a 200 response with busy data happen only
\* after enforceRateLimit has returned allowed = true for the same request;
\* a request the limiter denies is answered 429 rate_limited and one whose
\* limiter call throws 502 upstream_error, both without an upstream fetch
\* and without busy data.
C22_LimiterBeforeUpstream ==
    \A id \in RequestIds :
        FreeBusyRequest(requests[id]) =>
            /\ requests[id].upstreamFetched => requests[id].limiter = "allowed"
            /\ requests[id].answer.busy # NoBusy => requests[id].limiter = "allowed"
            /\ (Answered(requests[id]) /\ requests[id].limiter = "denied") =>
                  /\ requests[id].answer.status = 429
                  /\ requests[id].answer.error = "rate_limited"
                  /\ ~requests[id].upstreamFetched
                  /\ requests[id].answer.busy = NoBusy
            /\ (Answered(requests[id]) /\ requests[id].limiter = "throws") =>
                  /\ requests[id].answer.status = 502
                  /\ requests[id].answer.error = "upstream_error"
                  /\ ~requests[id].upstreamFetched
                  /\ requests[id].answer.busy = NoBusy

\* C23: a GET /freebusy request whose Origin is not in the allowlist is
\* answered 403 forbidden_origin without business logic having run for it:
\* the rate limiter is not called and no upstream fetch is made.
C23_ForbiddenOriginBeforeLogic ==
    \A id \in RequestIds :
        (FreeBusyRequest(requests[id]) /\ OriginNotAllowed(requests[id])) =>
            /\ ~requests[id].limiterCalled
            /\ ~requests[id].upstreamFetched
            /\ Answered(requests[id]) =>
                  /\ requests[id].answer.status = 403
                  /\ requests[id].answer.error = "forbidden_origin"

\* The fetchedAt of the successful fetches and parses so far.
Successes == {requests[id].now : id \in {j \in RequestIds : requests[j].parsed}}

\* The request passes the limiter in this step and enters fetchUpstream.
EntersFetchUpstream(id) ==
    /\ requests[id].pc = "awaitLimiter"
    /\ requests'[id].limiter = "allowed"

\* The request's upstream fetch or its read and parse fails in this step.
FetchFails(id) ==
    /\ requests[id].pc \in {"awaitUpstream", "awaitBody"}
    /\ requests'[id].pc = "done"
    /\ ~requests'[id].parsed

\* C24: after a successful upstream fetch and parse at time t every
\* /freebusy request handled at a time in [t, t + CACHE_TTL) is served from
\* the cached parse result and causes no upstream fetch, and one handled at
\* or after t + CACHE_TTL fetches upstream again; a fetch or parse that
\* fails leaves the cached entry as it was and is answered 502, never with
\* stale data.
C24_CacheServesForTtl ==
    [][\A id \in RequestIds :
          /\ (EntersFetchUpstream(id) /\ Successes # {}) =>
                \E t \in Successes :
                    /\ \A other \in Successes : other <= t
                    /\ IF dateNow < t + CacheTtl
                       THEN /\ ~requests'[id].upstreamFetched
                            /\ requests'[id].fromCache
                       ELSE requests'[id].upstreamFetched
          /\ FetchFails(id) =>
                /\ cached' = cached
                /\ requests'[id].answer.status = 502
                /\ requests'[id].answer.busy = NoBusy]_vars

\* C28: a /freebusy request whose env validated is completed with the
\* configuration parsed from its own env, also when another request, one
\* with a misconfigured env included, is handled while it awaits the rate
\* limiter or the upstream fetch: its response is CORS-checked against its
\* own allowlist, is built from its own configuration and is not an
\* uninitialized-configuration error.
C28_OwnConfiguration ==
    \A id \in RequestIds :
        (FreeBusyRequest(requests[id]) /\ Answered(requests[id])) =>
            /\ requests[id].answer.error # "exception"
            /\ requests[id].answer.cors = requests[id].request.env
            /\ requests[id].answer.status = 200 =>
                  requests[id].answer.config = requests[id].request.env

====
